---- MODULE Spec2Model ----
(***************************************************************************)
(* Model of the fuzzbox chaos-injection engine: the configuration merge,   *)
(* the shared ChaosState, the route matcher, the rate-limit simulator, the *)
(* probability gate with its lazily expiring spike mode, the action        *)
(* selector and the Express middleware that strings them together.         *)
(*                                                                         *)
(* Conventions.  Probabilities and Math.random() samples are counted in    *)
(* tenths: 10 stands for 1.0, 8 for 0.8, and a sample is one of 0..9, so   *)
(* "sample < probability" keeps the strict comparison of the code.  Time   *)
(* is in milliseconds.  A path or a string route pattern is a sequence of  *)
(* one-character strings, so that startsWith is a character-wise prefix.   *)
(***************************************************************************)
EXTENDS Integers, Sequences, FiniteSets, TLC

\* ------------------------------------------------------------------ bounds
MaxOverLimit == 2
MaxTicks == 2
MaxWrites == 2
MaxPathLen == 3
MaxListLen == 2

\* ------------------------------------------------------- program constants
\* JavaScript null, for spikeModeExpiry and for absent observation fields.
NULL == -1
\* Effective probability during a spike (0.8, in tenths).
SpikeProbability == 8
\* Length of a spike window in milliseconds.
SpikeDurationMs == 30000

\* Math.random() returns a value in [0,1): the samples 0.0, 0.1, .. 0.9.
Samples == 0..9
\* The clock advances between handler invocations by one of these amounts.
TickSteps == {30000}

Max(a, b) == IF a > b THEN a ELSE b
Min(a, b) == IF a < b THEN a ELSE b

\* ------------------------------------------------------------------- paths
DefaultDashboardPath == <<"/", "_", "_", "f", "u", "z", "z", "b", "o", "x">>
ApiStateSuffix == <<"/", "a", "p", "i", "/", "s", "t", "a", "t", "e">>

\* String.prototype.startsWith: pattern is a literal, case-sensitive prefix.
StartsWith(path, pattern) ==
    /\ Len(pattern) <= Len(path)
    /\ \A i \in 1..Len(pattern) : path[i] = pattern[i]

\* A string matcher and a RegExp matcher.  The RegExp matchers modelled are
\* a literal with an optional ^ and an optional $ anchor, without the g or y
\* flag (so test() keeps no lastIndex between calls).
StringMatcher(lit) == [kind |-> "string", lit |-> lit, atStart |-> FALSE, atEnd |-> FALSE]
RegExpMatcher(lit, atStart, atEnd) == [kind |-> "regexp", lit |-> lit, atStart |-> atStart, atEnd |-> atEnd]

\* RegExp.prototype.test for the modelled patterns: the literal occurs in the
\* path at some offset allowed by the anchors.
RegExpTest(pattern, path) ==
    \E off \in 0..(Len(path) - Len(pattern.lit)) :
        /\ \A i \in 1..Len(pattern.lit) : path[off + i] = pattern.lit[i]
        /\ pattern.atStart => off = 0
        /\ pattern.atEnd => off + Len(pattern.lit) = Len(path)

\* One iteration of either loop of shouldFuzzRoute: the two if-conditions.
PatternHits(pattern, path) ==
    \/ (pattern.kind = "string" /\ StartsWith(path, pattern.lit))
    \/ (pattern.kind = "regexp" /\ RegExpTest(pattern, path))


\* Mutant: the loop returns after its first iteration.
LoopOver_FirstOnly(routes, path, i) ==
    IF i > Len(routes) THEN FALSE ELSE PatternHits(routes[i], path)

\* for (const pattern of routes) if (...) return <found>; falls through to
\* <notFound> when the list is exhausted.
RECURSIVE LoopOver(_, _, _)
LoopOver(routes, path, i) ==
    IF i > Len(routes) THEN FALSE
    ELSE IF PatternHits(routes[i], path) THEN TRUE
    ELSE LoopOver(routes, path, i + 1)


\* Mutant: every path is selected, whatever the two lists say.
shouldFuzzRoute_Unfiltered(path, includeRoutes, excludeRoutes) ==
    Len(includeRoutes) >= 0 /\ Len(excludeRoutes) >= 0 /\ Len(path) >= 0

\* Mutant: the include list is consulted before the exclude list.
shouldFuzzRoute_IncludeFirst(path, includeRoutes, excludeRoutes) ==
    IF Len(includeRoutes) > 0 /\ LoopOver(includeRoutes, path, 1) THEN TRUE
    ELSE IF LoopOver(excludeRoutes, path, 1) THEN FALSE
    ELSE Len(includeRoutes) = 0

shouldFuzzRoute(path, includeRoutes, excludeRoutes) ==
    IF LoopOver(excludeRoutes, path, 1) THEN FALSE
    ELSE IF Len(includeRoutes) = 0 THEN TRUE
    ELSE IF LoopOver(includeRoutes, path, 1) THEN TRUE
    ELSE FALSE

\* -------------------------------------------------------------- JS values
\* A JSON value of a dashboard patch, with the tag typeof reports.
Undefined == [type |-> "undefined", b |-> FALSE, n |-> 0]
Bool(b) == [type |-> "boolean", b |-> b, n |-> 0]
Num(n) == [type |-> "number", b |-> FALSE, n |-> n]
StrVal == [type |-> "string", b |-> FALSE, n |-> 0]

\* { ...a, ...b }: the keys of both, b's value where b has the key.
Spread(a, b) ==
    [k \in (DOMAIN a) \cup (DOMAIN b) |-> IF k \in DOMAIN b THEN b[k] ELSE a[k]]

\* obj.key for a key that may be missing: spreading undefined adds nothing.
Block(obj, key) == IF key \in DOMAIN obj THEN obj[key] ELSE [k \in {} |-> NULL]

\* ----------------------------------------------------------- configuration
defaultConfig ==
    [ probability |-> 1,
      enabled |-> TRUE,
      includeRoutes |-> <<>>,
      excludeRoutes |-> <<>>,
      dashboardPath |-> DefaultDashboardPath,
      silent |-> FALSE,
      behaviors |->
        [ latency |-> [enabled |-> TRUE, minMs |-> 100, maxMs |-> 3000],
          errors |-> [enabled |-> TRUE, statusCodes |-> <<500, 502, 503, 504>>],
          timeout |-> [enabled |-> TRUE, probability |-> 2],
          bodyMutation |-> [enabled |-> TRUE, statusCodes |-> <<200>>, fieldProbability |-> 3],
          zombieMode |-> [enabled |-> TRUE, bytesPerSecond |-> 10, probability |-> 1],
          headerHavoc |-> [enabled |-> TRUE, targetHeaders |-> <<>>],
          rateLimit |-> [enabled |-> TRUE, requestLimit |-> 10, windowMs |-> 60000,
                         retryAfterSeconds |-> 60] ] ]

\* Variant of mergeConfig that stops after the top-level spread.
mergeConfig_Shallow(userConfig) == Spread(defaultConfig, userConfig)

mergeConfig(userConfig) ==
    LET merged == Spread(defaultConfig, userConfig)
        d == defaultConfig.behaviors
    IN  IF "behaviors" \in DOMAIN userConfig
        THEN LET u == userConfig.behaviors
             IN  [merged EXCEPT !.behaviors =
                    [ latency |-> Spread(d.latency, Block(u, "latency")),
                      errors |-> Spread(d.errors, Block(u, "errors")),
                      timeout |-> Spread(d.timeout, Block(u, "timeout")),
                      bodyMutation |-> Spread(d.bodyMutation, Block(u, "bodyMutation")),
                      zombieMode |-> Spread(d.zombieMode, Block(u, "zombieMode")),
                      headerHavoc |-> Spread(d.headerHavoc, Block(u, "headerHavoc")),
                      rateLimit |-> Spread(d.rateLimit, Block(u, "rateLimit")) ]]
        ELSE merged

\* ------------------------------------------------------------------- state
EmptyMap == [c \in {} |-> NULL]

createState ==
    [ enabled |-> TRUE,
      probability |-> 1,
      spikeMode |-> FALSE,
      spikeModeExpiry |-> NULL,
      requestCount |-> 0,
      chaosCount |-> 0,
      rateLimitCounter |-> EmptyMap ]

\* JavaScript truthiness of a number-or-null (null and 0 are falsy).
Truthy(x) == x # NULL /\ x # 0


\* Mutant: the limit-th call is already rejected (>= for >).
checkRateLimit_Inclusive(st, cfg, clientId, t) ==
    IF ~cfg.behaviors.rateLimit.enabled
    THEN [state |-> st, result |-> FALSE]
    ELSE
        LET table == st.rateLimitCounter
            fresh == clientId \notin DOMAIN table \/ t > table[clientId].resetAt
            clientData == IF fresh
                          THEN [count |-> 0, resetAt |-> t + cfg.behaviors.rateLimit.windowMs]
                          ELSE table[clientId]
            counted == [clientData EXCEPT !.count = @ + 1]
        IN  [ state |-> [st EXCEPT !.rateLimitCounter = (clientId :> counted) @@ table],
              result |-> counted.count >= cfg.behaviors.rateLimit.requestLimit ]

\* ------------------------------------------------------------ rate limiter
\* Mutant: every call pushes the end of the client's window forward.
checkRateLimit_SlidingWindow(st, cfg, clientId, t) ==
    IF ~cfg.behaviors.rateLimit.enabled
    THEN [state |-> st, result |-> FALSE]
    ELSE
        LET limit == cfg.behaviors.rateLimit.requestLimit
            windowMs == cfg.behaviors.rateLimit.windowMs
            table == st.rateLimitCounter
            fresh == clientId \notin DOMAIN table \/ t > table[clientId].resetAt
            clientData == IF fresh THEN [count |-> 0, resetAt |-> t + windowMs]
                          ELSE table[clientId]
            counted == [count |-> clientData.count + 1, resetAt |-> t + windowMs]
        IN  [ state |-> [st EXCEPT !.rateLimitCounter = (clientId :> counted) @@ table],
              result |-> counted.count > limit ]

\* Mutant: a call also removes the entries of other clients whose window has
\* elapsed.
checkRateLimit_Sweeps(st, cfg, clientId, t) ==
    IF ~cfg.behaviors.rateLimit.enabled
    THEN [state |-> st, result |-> FALSE]
    ELSE
        LET limit == cfg.behaviors.rateLimit.requestLimit
            windowMs == cfg.behaviors.rateLimit.windowMs
            table == st.rateLimitCounter
            fresh == clientId \notin DOMAIN table \/ t > table[clientId].resetAt
            clientData == IF fresh THEN [count |-> 0, resetAt |-> t + windowMs]
                          ELSE table[clientId]
            counted == [clientData EXCEPT !.count = @ + 1]
            live == {c \in DOMAIN table : t <= table[c].resetAt}
        IN  [ state |-> [st EXCEPT !.rateLimitCounter =
                            (clientId :> counted) @@ [c \in live |-> table[c]]],
              result |-> counted.count > limit ]

\* Returns the state after the call and the boolean the call returns.
checkRateLimit(st, cfg, clientId, t) ==
    IF ~cfg.behaviors.rateLimit.enabled
    THEN [state |-> st, result |-> FALSE]
    ELSE
        LET limit == cfg.behaviors.rateLimit.requestLimit
            windowMs == cfg.behaviors.rateLimit.windowMs
            table == st.rateLimitCounter
            fresh == clientId \notin DOMAIN table \/ t > table[clientId].resetAt
            clientData == IF fresh THEN [count |-> 0, resetAt |-> t + windowMs]
                          ELSE table[clientId]
            counted == [clientData EXCEPT !.count = @ + 1]
        IN  [ state |-> [st EXCEPT !.rateLimitCounter = (clientId :> counted) @@ table],
              result |-> counted.count > limit ]


\* Mutant: the spike already counts as expired at its deadline (>= for >).
shouldInjectChaos_ExpiresAtDeadline(st, t, sample) ==
    IF ~st.enabled
    THEN [state |-> st, result |-> FALSE, effectiveProbability |-> NULL]
    ELSE
        LET expired == st.spikeMode /\ Truthy(st.spikeModeExpiry) /\ t >= st.spikeModeExpiry
            after == IF expired
                     THEN [st EXCEPT !.spikeMode = FALSE, !.spikeModeExpiry = NULL]
                     ELSE st
            eff == IF after.spikeMode THEN SpikeProbability ELSE after.probability
        IN  [state |-> after, result |-> sample < eff, effectiveProbability |-> eff]

\* Mutant: the effective probability is chosen before the expiry check.
shouldInjectChaos_StaleProbability(st, t, sample) ==
    IF ~st.enabled
    THEN [state |-> st, result |-> FALSE, effectiveProbability |-> NULL]
    ELSE
        LET expired == st.spikeMode /\ Truthy(st.spikeModeExpiry) /\ t > st.spikeModeExpiry
            after == IF expired
                     THEN [st EXCEPT !.spikeMode = FALSE, !.spikeModeExpiry = NULL]
                     ELSE st
            eff == IF st.spikeMode THEN SpikeProbability ELSE st.probability
        IN  [state |-> after, result |-> sample < eff, effectiveProbability |-> eff]

\* -------------------------------------------------------- probability gate
\* Mutant: the sample is compared with <= instead of <.
shouldInjectChaos_Inclusive(st, t, sample) ==
    IF ~st.enabled
    THEN [state |-> st, result |-> FALSE, effectiveProbability |-> NULL]
    ELSE
        LET expired == st.spikeMode /\ Truthy(st.spikeModeExpiry) /\ t > st.spikeModeExpiry
            after == IF expired
                     THEN [st EXCEPT !.spikeMode = FALSE, !.spikeModeExpiry = NULL]
                     ELSE st
            eff == IF after.spikeMode THEN SpikeProbability ELSE after.probability
        IN  [state |-> after, result |-> sample <= eff, effectiveProbability |-> eff]

\* Mutant: the spike-expiry check runs before the enabled check.
shouldInjectChaos_ExpiryFirst(st, t, sample) ==
    LET expired == /\ st.spikeMode
                   /\ Truthy(st.spikeModeExpiry)
                   /\ t > st.spikeModeExpiry
        after == IF expired
                 THEN [st EXCEPT !.spikeMode = FALSE, !.spikeModeExpiry = NULL]
                 ELSE st
        effectiveProbability == IF after.spikeMode THEN SpikeProbability
                                ELSE after.probability
    IN  IF ~st.enabled
        THEN [state |-> after, result |-> FALSE, effectiveProbability |-> NULL]
        ELSE [ state |-> after,
               result |-> sample < effectiveProbability,
               effectiveProbability |-> effectiveProbability ]

\* Mutant: the lazy expiry switches the spike off and keeps its deadline.
shouldInjectChaos_KeepsExpiry(st, t, sample) ==
    IF ~st.enabled
    THEN [state |-> st, result |-> FALSE, effectiveProbability |-> NULL]
    ELSE
        LET expired == /\ st.spikeMode
                       /\ Truthy(st.spikeModeExpiry)
                       /\ t > st.spikeModeExpiry
            after == IF expired THEN [st EXCEPT !.spikeMode = FALSE] ELSE st
            effectiveProbability == IF after.spikeMode THEN SpikeProbability
                                    ELSE after.probability
        IN  [ state |-> after,
              result |-> sample < effectiveProbability,
              effectiveProbability |-> effectiveProbability ]

\* Returns the state after the call, the boolean the call returns and the
\* effective probability it compared the sample with (NULL when it returned
\* before computing one).
shouldInjectChaos(st, t, sample) ==
    IF ~st.enabled
    THEN [state |-> st, result |-> FALSE, effectiveProbability |-> NULL]
    ELSE
        LET expired == /\ st.spikeMode
                       /\ Truthy(st.spikeModeExpiry)
                       /\ t > st.spikeModeExpiry
            after == IF expired
                     THEN [st EXCEPT !.spikeMode = FALSE, !.spikeModeExpiry = NULL]
                     ELSE st
            effectiveProbability == IF after.spikeMode THEN SpikeProbability
                                    ELSE after.probability
        IN  [ state |-> after,
              result |-> sample < effectiveProbability,
              effectiveProbability |-> effectiveProbability ]

\* ---------------------------------------------------------- random helpers
\* Mutant: the scaled sample is rounded up instead of down.
randomInt_Ceiling(min, max, r) == ((r * (max - min + 1) + 9) \div 10) + min

\* Math.floor(Math.random() * (max - min + 1)) + min, the sample r in tenths.
randomInt(min, max, r) == ((r * (max - min + 1)) \div 10) + min

\* arr[Math.floor(Math.random() * arr.length)]; undefined for an empty array.
randomChoice(arr, r) ==
    IF Len(arr) = 0 THEN NULL ELSE arr[((r * Len(arr)) \div 10) + 1]

\* --------------------------------------------------------- action selector
\* A ChaosAction: the tag and the fields its variant carries (NULL or ""
\* where the variant has no such field, "" also for header: undefined).
ChaosAction(type, delayMs, statusCode, action, header) ==
    [type |-> type, delayMs |-> delayMs, statusCode |-> statusCode,
     action |-> action, header |-> header]

NoneAction == ChaosAction("none", NULL, NULL, "", "")

HavocActions == <<"delete", "scramble", "alter">>

\* Mutant: a latency producer is pushed whatever its enabled flag says.
enabledBehaviors_AlwaysLatency(cfg, rTimeout, rZombie) ==
    LET b == cfg.behaviors
    IN  <<"latency">>
        \o (IF b.errors.enabled THEN <<"error">> ELSE <<>>)
        \o (IF b.timeout.enabled /\ rTimeout < b.timeout.probability
            THEN <<"timeout">> ELSE <<>>)
        \o (IF b.bodyMutation.enabled THEN <<"bodyMutation">> ELSE <<>>)
        \o (IF b.zombieMode.enabled /\ rZombie < b.zombieMode.probability
            THEN <<"zombieMode">> ELSE <<>>)
        \o (IF b.headerHavoc.enabled THEN <<"headerHavoc">> ELSE <<>>)

\* Mutant: timeout and zombieMode are pushed whenever they are enabled.
enabledBehaviors_NoTrial(cfg, rTimeout, rZombie) ==
    LET b == cfg.behaviors
    IN  (IF b.latency.enabled THEN <<"latency">> ELSE <<>>)
        \o (IF b.errors.enabled THEN <<"error">> ELSE <<>>)
        \o (IF b.timeout.enabled THEN <<"timeout">> ELSE <<>>)
        \o (IF b.bodyMutation.enabled THEN <<"bodyMutation">> ELSE <<>>)
        \o (IF b.zombieMode.enabled THEN <<"zombieMode">> ELSE <<>>)
        \o (IF b.headerHavoc.enabled THEN <<"headerHavoc">> ELSE <<>>)

\* The producers pushed onto enabledBehaviors, in the order of the code.  The
\* two secondary trials are drawn only when the behaviour is enabled.
enabledBehaviors(cfg, rTimeout, rZombie) ==
    LET b == cfg.behaviors
    IN  (IF b.latency.enabled THEN <<"latency">> ELSE <<>>)
        \o (IF b.errors.enabled THEN <<"error">> ELSE <<>>)
        \o (IF b.timeout.enabled /\ rTimeout < b.timeout.probability
            THEN <<"timeout">> ELSE <<>>)
        \o (IF b.bodyMutation.enabled THEN <<"bodyMutation">> ELSE <<>>)
        \o (IF b.zombieMode.enabled /\ rZombie < b.zombieMode.probability
            THEN <<"zombieMode">> ELSE <<>>)
        \o (IF b.headerHavoc.enabled THEN <<"headerHavoc">> ELSE <<>>)

\* Invoking the selected producer with the samples r1, r2 it draws.
produce(selected, cfg, r1, r2) ==
    LET b == cfg.behaviors
    IN  CASE selected = "latency" ->
                ChaosAction("latency", randomInt(b.latency.minMs, b.latency.maxMs, r1),
                            NULL, "", "")
          [] selected = "error" ->
                ChaosAction("error", NULL, randomChoice(b.errors.statusCodes, r1), "", "")
          [] selected = "headerHavoc" ->
                ChaosAction("headerHavoc", NULL, NULL, randomChoice(HavocActions, r1),
                            IF Len(b.headerHavoc.targetHeaders) > 0
                            THEN randomChoice(b.headerHavoc.targetHeaders, r2)
                            ELSE "")
          [] OTHER -> ChaosAction(selected, NULL, NULL, "", "")

selectChaosAction(cfg, rTimeout, rZombie, rPick, r1, r2) ==
    LET built == enabledBehaviors(cfg, rTimeout, rZombie)
    IN  IF Len(built) = 0 THEN NoneAction
        ELSE produce(randomChoice(built, rPick), cfg, r1, r2)

\* ------------------------------------------------- the Express middleware
VARIABLES
    config,         \* the merged configuration of the engine instance
    state,          \* the ChaosState shared by all requests
    now,            \* Date.now()
    last,           \* what the last handler invocation received and did
    windowCalls,    \* per client id: checkRateLimit calls in its current window
    writes,         \* dashboard writes handled so far
    route,          \* one call of shouldFuzzRoute: its arguments and its result
    call            \* one call of a library function: its arguments and its result

engineVars == <<config, state, now, last, windowCalls, writes>>
vars == <<config, state, now, last, windowCalls, writes, route, call>>

\* The configurations an engine is built from.
E2EConfig ==
    [ probability |-> 10,
      behaviors |->
        [ errors |-> [enabled |-> TRUE, statusCodes |-> <<503>>],
          latency |-> [enabled |-> FALSE],
          bodyMutation |-> [enabled |-> FALSE],
          timeout |-> [enabled |-> FALSE],
          zombieMode |-> [enabled |-> FALSE],
          headerHavoc |-> [enabled |-> FALSE] ] ]

DisabledConfig ==
    [ enabled |-> FALSE,
      probability |-> 10,
      behaviors |->
        [ errors |-> [statusCodes |-> <<500>>],
          latency |-> [enabled |-> FALSE],
          bodyMutation |-> [enabled |-> FALSE],
          timeout |-> [enabled |-> FALSE],
          zombieMode |-> [enabled |-> FALSE],
          headerHavoc |-> [enabled |-> FALSE],
          rateLimit |-> [requestLimit |-> 1, windowMs |-> 30000] ] ]

RoutedConfig ==
    [ probability |-> 5,
      includeRoutes |-> << StringMatcher(<<"/", "a">>) >>,
      excludeRoutes |-> << RegExpMatcher(<<"h">>, FALSE, TRUE) >>,
      behaviors |->
        [ latency |-> [minMs |-> 1, maxMs |-> 2],
          errors |-> [statusCodes |-> <<500, 503>>],
          timeout |-> [probability |-> 5],
          zombieMode |-> [probability |-> 5],
          rateLimit |-> [requestLimit |-> 1, windowMs |-> 30000, retryAfterSeconds |-> 30] ] ]

QuietConfig ==
    [ probability |-> 0,
      behaviors |->
        [ latency |-> [enabled |-> FALSE],
          errors |-> [enabled |-> FALSE],
          bodyMutation |-> [enabled |-> FALSE],
          zombieMode |-> [enabled |-> FALSE],
          headerHavoc |-> [enabled |-> FALSE],
          timeout |-> [probability |-> 5],
          rateLimit |-> [enabled |-> FALSE] ] ]

\* Chaos on every request, timeout the only enabled behaviour, no rate limit.
LoneTimeoutConfig ==
    [ probability |-> 10,
      behaviors |->
        [ latency |-> [enabled |-> FALSE],
          errors |-> [enabled |-> FALSE],
          timeout |-> [probability |-> 5],
          bodyMutation |-> [enabled |-> FALSE],
          zombieMode |-> [enabled |-> FALSE],
          headerHavoc |-> [enabled |-> FALSE],
          rateLimit |-> [enabled |-> FALSE] ] ]

\* Chaos on every request of /a: a latency of 1 ms or a timeout; no rate limit.
FlightConfig ==
    [ probability |-> 10,
      includeRoutes |-> << StringMatcher(<<"/", "a">>) >>,
      behaviors |->
        [ latency |-> [minMs |-> 1, maxMs |-> 1],
          errors |-> [enabled |-> FALSE],
          timeout |-> [probability |-> 10],
          bodyMutation |-> [enabled |-> FALSE],
          zombieMode |-> [enabled |-> FALSE],
          headerHavoc |-> [enabled |-> FALSE],
          rateLimit |-> [enabled |-> FALSE] ] ]

UserConfigs == {DisabledConfig, RoutedConfig, QuietConfig}

\* req.path of the requests that are not for the dashboard, and req.ip
\* ("" stands for an undefined req.ip).
ReqPaths == { <<"/", "a">>, <<"/", "h">> }
Ips == {"10.0.0.1", ""}
ClientIdOf(ip) == IF ip = "" THEN "unknown" ELSE ip
ClientIds == {ClientIdOf(ip) : ip \in Ips}

\* req.body of a dashboard write: the four recognised keys, each possibly
\* missing (Undefined) or of the wrong type.
Patch(enabled, probability, spikeMode, reset) ==
    [enabled |-> enabled, probability |-> probability, spikeMode |-> spikeMode, reset |-> reset]

NoPatch == Patch(Undefined, Undefined, Undefined, Undefined)

Bodies ==
    { Patch(Bool(TRUE), Undefined, Undefined, Undefined),
      Patch(Bool(FALSE), Undefined, Undefined, Undefined),
      Patch(Undefined, Num(-5), Undefined, Undefined),
      Patch(Undefined, Num(15), Undefined, Undefined),
      Patch(Undefined, Undefined, Bool(TRUE), Undefined),
      Patch(Undefined, Undefined, Bool(FALSE), Undefined),
      Patch(Undefined, Undefined, Undefined, Bool(TRUE)),
      Patch(StrVal, StrVal, Num(1), StrVal),
      Patch(Bool(FALSE), Num(3), Bool(TRUE), Bool(TRUE)) }

\* The JSON both dashboard endpoints answer with.
StateJson(st) ==
    [enabled |-> st.enabled, probability |-> st.probability, spikeMode |-> st.spikeMode,
     requestCount |-> st.requestCount, chaosCount |-> st.chaosCount]

\* The observable answer of one handler invocation.
Response(kind, status, retryAfter, json) ==
    [kind |-> kind, status |-> status, retryAfter |-> retryAfter, json |-> json]

NoJson == StateJson(createState)
NoResponse == Response("none", NULL, NULL, NoJson)


\* Mutant: Retry-After carries the default instead of the configured value.
tooManyRequests_DefaultRetryAfter(cfg) ==
    Response("tooManyRequests", 429, defaultConfig.behaviors.rateLimit.retryAfterSeconds,
             NoJson)

\* res.setHeader('Retry-After', ...); res.status(429).json({ error: ... }).
tooManyRequests(cfg) ==
    Response("tooManyRequests", 429, cfg.behaviors.rateLimit.retryAfterSeconds, NoJson)

\* Mutant: a reset clears requestCount and the table and keeps chaosCount.
applyUpdates_ResetKeepsChaosCount(st, updates, t) ==
    LET s1 == IF updates.enabled.type = "boolean"
              THEN [st EXCEPT !.enabled = updates.enabled.b] ELSE st
        s2 == IF updates.probability.type = "number"
              THEN [s1 EXCEPT !.probability = Max(0, Min(10, updates.probability.n))]
              ELSE s1
        s3 == IF updates.spikeMode = Bool(TRUE)
              THEN [s2 EXCEPT !.spikeMode = TRUE, !.spikeModeExpiry = t + SpikeDurationMs]
              ELSE s2
    IN  IF updates.reset = Bool(TRUE)
        THEN [s3 EXCEPT !.requestCount = 0, !.rateLimitCounter = EmptyMap]
        ELSE s3

\* Mutant: a patch with spikeMode: false switches the spike off.
applyUpdates_SpikeOff(st, updates, t) ==
    LET s1 == IF updates.enabled.type = "boolean"
              THEN [st EXCEPT !.enabled = updates.enabled.b] ELSE st
        s2 == IF updates.probability.type = "number"
              THEN [s1 EXCEPT !.probability = Max(0, Min(10, updates.probability.n))]
              ELSE s1
        s3 == IF updates.spikeMode = Bool(TRUE)
              THEN [s2 EXCEPT !.spikeMode = TRUE, !.spikeModeExpiry = t + SpikeDurationMs]
              ELSE IF updates.spikeMode = Bool(FALSE)
              THEN [s2 EXCEPT !.spikeMode = FALSE, !.spikeModeExpiry = NULL]
              ELSE s2
    IN  IF updates.reset = Bool(TRUE)
        THEN [s3 EXCEPT !.requestCount = 0, !.chaosCount = 0, !.rateLimitCounter = EmptyMap]
        ELSE s3

\* Mutant: reset zeroes the counters and forgets to clear the table.
applyUpdates_KeepsTable(st, updates, t) ==
    LET s1 == IF updates.enabled.type = "boolean"
              THEN [st EXCEPT !.enabled = updates.enabled.b] ELSE st
        s2 == IF updates.probability.type = "number"
              THEN [s1 EXCEPT !.probability = Max(0, Min(10, updates.probability.n))]
              ELSE s1
        s3 == IF updates.spikeMode = Bool(TRUE)
              THEN [s2 EXCEPT !.spikeMode = TRUE, !.spikeModeExpiry = t + SpikeDurationMs]
              ELSE s2
    IN  IF updates.reset = Bool(TRUE)
        THEN [s3 EXCEPT !.requestCount = 0, !.chaosCount = 0]
        ELSE s3

\* Mutant: the probability is clamped from below only.
applyUpdates_NoUpperClamp(st, updates, t) ==
    LET s1 == IF updates.enabled.type = "boolean"
              THEN [st EXCEPT !.enabled = updates.enabled.b] ELSE st
        s2 == IF updates.probability.type = "number"
              THEN [s1 EXCEPT !.probability = Max(0, updates.probability.n)]
              ELSE s1
        s3 == IF updates.spikeMode = Bool(TRUE)
              THEN [s2 EXCEPT !.spikeMode = TRUE, !.spikeModeExpiry = t + SpikeDurationMs]
              ELSE s2
    IN  IF updates.reset = Bool(TRUE)
        THEN [s3 EXCEPT !.requestCount = 0, !.chaosCount = 0, !.rateLimitCounter = EmptyMap]
        ELSE s3

\* Mutant: a probability update also zeroes the request counter.
applyUpdates_ProbabilityResets(st, updates, t) ==
    LET s1 == IF updates.enabled.type = "boolean"
              THEN [st EXCEPT !.enabled = updates.enabled.b] ELSE st
        s2 == IF updates.probability.type = "number"
              THEN [s1 EXCEPT !.probability = Max(0, Min(10, updates.probability.n)),
                              !.requestCount = 0]
              ELSE s1
        s3 == IF updates.spikeMode = Bool(TRUE)
              THEN [s2 EXCEPT !.spikeMode = TRUE, !.spikeModeExpiry = t + SpikeDurationMs]
              ELSE s2
    IN  IF updates.reset = Bool(TRUE)
        THEN [s3 EXCEPT !.requestCount = 0, !.chaosCount = 0, !.rateLimitCounter = EmptyMap]
        ELSE s3

\* Mutant: activation is ignored while spikeMode is already set.
applyUpdates_KeepsRunningSpike(st, updates, t) ==
    LET s1 == IF updates.enabled.type = "boolean"
              THEN [st EXCEPT !.enabled = updates.enabled.b] ELSE st
        s2 == IF updates.probability.type = "number"
              THEN [s1 EXCEPT !.probability = Max(0, Min(10, updates.probability.n))]
              ELSE s1
        s3 == IF updates.spikeMode = Bool(TRUE) /\ ~s2.spikeMode
              THEN [s2 EXCEPT !.spikeMode = TRUE, !.spikeModeExpiry = t + SpikeDurationMs]
              ELSE s2
    IN  IF updates.reset = Bool(TRUE)
        THEN [s3 EXCEPT !.requestCount = 0, !.chaosCount = 0, !.rateLimitCounter = EmptyMap]
        ELSE s3

\* The body of the POST branch: the four independent updates, in order.
applyUpdates(st, updates, t) ==
    LET s1 == IF updates.enabled.type = "boolean"
              THEN [st EXCEPT !.enabled = updates.enabled.b] ELSE st
        s2 == IF updates.probability.type = "number"
              THEN [s1 EXCEPT !.probability = Max(0, Min(10, updates.probability.n))]
              ELSE s1
        s3 == IF updates.spikeMode = Bool(TRUE)
              THEN [s2 EXCEPT !.spikeMode = TRUE, !.spikeModeExpiry = t + SpikeDurationMs]
              ELSE s2
        s4 == IF updates.reset = Bool(TRUE)
              THEN [s3 EXCEPT !.requestCount = 0, !.chaosCount = 0,
                              !.rateLimitCounter = EmptyMap]
              ELSE s3
    IN  s4

\* What one handler invocation received and did: the request, the answer the
\* engine itself sent (if any), whether and when it called next(), the
\* pipeline stage it returned from ("dashboard", "route", "rateLimit", "gate"
\* or "action"), the gate's effective probability, the action selected, the
\* response method it wrapped, (for a dashboard write) the state before and
\* (for a request) the spike fields before.
Obs(op, path, method, ip, body, response, next, stage, limited, eff, action, intercept, before, spikeBefore) ==
    [op |-> op, path |-> path, method |-> method, ip |-> ip, body |-> body,
     response |-> response, next |-> next, stage |-> stage, limited |-> limited,
     effectiveProbability |-> eff, action |-> action, intercept |-> intercept,
     before |-> before, spikeBefore |-> spikeBefore]

SpikeFields(st) == [spikeMode |-> st.spikeMode, spikeModeExpiry |-> st.spikeModeExpiry]

NoObs(op) ==
    Obs(op, <<>>, "", "", NoPatch, NoResponse, "never", "", FALSE, NULL, NoneAction, "none",
        createState, SpikeFields(createState))

\* Every action selectChaosAction can return for a configuration, over all
\* the samples its draws can take.
Configs == {mergeConfig(u) : u \in UserConfigs \cup {E2EConfig, LoneTimeoutConfig, FlightConfig}}

PossibleActions ==
    { <<c, selectChaosAction(c, rTimeout, rZombie, rPick, r1, r2)>> :
        c \in Configs, rTimeout \in Samples, rZombie \in Samples, rPick \in Samples,
        r1 \in Samples, r2 \in Samples }

ActionsFor(cfg) == {p[2] : p \in {q \in PossibleActions : q[1] = cfg}}

\* Mutant: a timeout falls through to the default branch.
executeAction_TimeoutFallsThrough(action, path, method, ip, eff, spikeBefore) ==
    LET obs(response, next, intercept) ==
            Obs("request", path, method, ip, NoPatch, response, next, "action", FALSE, eff,
                action, intercept, createState, spikeBefore)
    IN  CASE action.type = "latency" -> obs(NoResponse, "afterDelay", "none")
          [] action.type = "error" ->
                obs(Response("chaosError", action.statusCode, NULL, NoJson), "never", "none")
          [] action.type = "bodyMutation" -> obs(NoResponse, "now", "send")
          [] action.type = "zombieMode" -> obs(NoResponse, "now", "end")
          [] action.type = "headerHavoc" -> obs(NoResponse, "now", "json")
          [] OTHER -> obs(NoResponse, "now", "none")

\* Mutant: the error branch responds and then falls through to next().
executeAction_ErrorCallsNext(action, path, method, ip, eff, spikeBefore) ==
    LET obs(response, next, intercept) ==
            Obs("request", path, method, ip, NoPatch, response, next, "action", FALSE, eff,
                action, intercept, createState, spikeBefore)
    IN  CASE action.type = "latency" -> obs(NoResponse, "afterDelay", "none")
          [] action.type = "error" ->
                obs(Response("chaosError", action.statusCode, NULL, NoJson), "now", "none")
          [] action.type = "timeout" -> obs(NoResponse, "never", "none")
          [] action.type = "bodyMutation" -> obs(NoResponse, "now", "send")
          [] action.type = "zombieMode" -> obs(NoResponse, "now", "end")
          [] action.type = "headerHavoc" -> obs(NoResponse, "now", "json")
          [] OTHER -> obs(NoResponse, "now", "none")

\* The switch over action.type: the observation of a request that got action.
executeAction(action, path, method, ip, eff, spikeBefore) ==
    LET obs(response, next, intercept) ==
            Obs("request", path, method, ip, NoPatch, response, next, "action", FALSE, eff,
                action, intercept, createState, spikeBefore)
    IN  CASE action.type = "latency" -> obs(NoResponse, "afterDelay", "none")
          [] action.type = "error" ->
                obs(Response("chaosError", action.statusCode, NULL, NoJson), "never", "none")
          [] action.type = "timeout" -> obs(NoResponse, "never", "none")
          [] action.type = "bodyMutation" -> obs(NoResponse, "now", "send")
          [] action.type = "zombieMode" -> obs(NoResponse, "now", "end")
          [] action.type = "headerHavoc" -> obs(NoResponse, "now", "json")
          [] OTHER -> obs(NoResponse, "now", "none")

\* ----------------------------------------------------- the Next.js adapters
\* What an adapter does with a request once the pipeline has decided: the
\* response it sends itself, whether and when the underlying handler runs
\* (for the middleware: the request continues to its route), and whether the
\* adapter's own promise ever settles.
Outcome(response, handler, intercept, settles) ==
    [response |-> response, handler |-> handler, intercept |-> intercept,
     settles |-> settles]

\* fuzzboxNext: the switch on the selected action.
fuzzboxNextSwitch(action) ==
    CASE action.type = "latency" -> Outcome(NoResponse, "afterDelay", "none", TRUE)
      [] action.type = "error" ->
            Outcome(Response("chaosError", action.statusCode, NULL, NoJson), "never", "none",
                    TRUE)
      [] action.type = "timeout" -> Outcome(NoResponse, "never", "none", FALSE)
      [] OTHER -> Outcome(NoResponse, "now", "none", TRUE)

\* fuzzboxApiRoute: the switch on the selected action.
fuzzboxApiRouteSwitch(action) ==
    CASE action.type = "latency" -> Outcome(NoResponse, "afterDelay", "none", TRUE)
      [] action.type = "error" ->
            Outcome(Response("chaosError", action.statusCode, NULL, NoJson), "never", "none",
                    TRUE)
      [] action.type = "timeout" -> Outcome(NoResponse, "never", "none", TRUE)
      [] action.type = "bodyMutation" -> Outcome(NoResponse, "now", "json", TRUE)
      [] OTHER -> Outcome(NoResponse, "now", "none", TRUE)

\* fuzzboxNext and fuzzboxApiRoute: the branch taken when checkRateLimit
\* returns true.
fuzzboxNextRateLimited(cfg) ==
    Outcome(Response("tooManyRequests", 429, cfg.behaviors.rateLimit.retryAfterSeconds, NoJson),
            "never", "none", TRUE)

fuzzboxApiRouteRateLimited(cfg) ==
    Outcome(Response("tooManyRequests", 429, cfg.behaviors.rateLimit.retryAfterSeconds, NoJson),
            "never", "none", TRUE)

\* Requests allowed per engine run: enough to go MaxOverLimit past the limit.
RequestBudget(cfg) ==
    (IF cfg.behaviors.rateLimit.enabled THEN cfg.behaviors.rateLimit.requestLimit ELSE 0)
        + MaxOverLimit

DashboardOn(cfg) == Len(cfg.dashboardPath) > 0
ApiStatePath(cfg) == cfg.dashboardPath \o ApiStateSuffix


\* Mutant: the state is not synchronised with the configuration.
initialState_NoSync(cfg) == createState

\* createState() followed by the "sync state with config" assignments.
initialState(cfg) ==
    [createState EXCEPT !.enabled = cfg.enabled, !.probability = cfg.probability]

\* No library call in progress.
NoCall == [pc |-> "idle"]

NoRoute == [pc |-> "idle", path |-> <<>>, includeRoutes |-> <<>>, excludeRoutes |-> <<>>,
            result |-> FALSE]

\* fuzzboxExpress(userConfig): the engine right after construction.
InitWith(userConfigs) ==
    /\ \E userConfig \in userConfigs :
          /\ config = mergeConfig(userConfig)
          /\ state = initialState(mergeConfig(userConfig))
    /\ now = 0
    /\ route = NoRoute
    /\ call = NoCall
    /\ last = NoObs("init")
    /\ windowCalls = [c \in ClientIds |-> 0]
    /\ writes = 0

Init == InitWith(UserConfigs)

\* Time passes between two handler invocations.
Tick ==
    /\ \E d \in TickSteps :
          /\ now + d <= MaxTicks * SpikeDurationMs
          /\ now' = now + d
    /\ last' = NoObs("tick")
    /\ UNCHANGED <<config, state, windowCalls, writes, route, call>>

\* A request for the dashboard path: the UI page.
DashboardUI ==
    /\ DashboardOn(config)
    /\ last' = [NoObs("dashboardUI") EXCEPT
                   !.path = config.dashboardPath, !.method = "GET", !.stage = "dashboard",
                   !.response = Response("html", 200, NULL, NoJson)]
    /\ UNCHANGED <<config, state, now, windowCalls, writes, route, call>>

\* Mutant: the state endpoint is reached after the request has been tracked.
GetState_Counted ==
    /\ DashboardOn(config)
    /\ state.requestCount < RequestBudget(config)
    /\ state' = [state EXCEPT !.requestCount = @ + 1]
    /\ last' = [NoObs("getState") EXCEPT
                   !.path = ApiStatePath(config), !.method = "GET", !.stage = "dashboard",
                   !.response = Response("state", 200, NULL, StateJson(state'))]
    /\ UNCHANGED <<config, now, windowCalls, writes, route, call>>

\* GET <dashboardPath>/api/state.
GetState ==
    /\ DashboardOn(config)
    /\ last' = [NoObs("getState") EXCEPT
                   !.path = ApiStatePath(config), !.method = "GET", !.stage = "dashboard",
                   !.response = Response("state", 200, NULL, StateJson(state))]
    /\ UNCHANGED <<config, state, now, windowCalls, writes, route, call>>

\* The answer of a handler invocation that threw instead of responding.
Thrown == Response("typeError", NULL, NULL, NoJson)

\* POST <dashboardPath>/api/state. updates is req.body (await req.json() in
\* the Next.js middleware): a patch, or Undefined when the request carried no
\* body that was parsed; reading updates.enabled then throws a TypeError (in
\* the Next.js middleware req.json() itself rejects).
Write(bodies) ==
    /\ DashboardOn(config)
    /\ writes < MaxWrites
    /\ writes' = writes + 1
    /\ \E updates \in bodies :
          IF updates = Undefined
          THEN /\ last' = [NoObs("postState") EXCEPT
                              !.path = ApiStatePath(config), !.method = "POST",
                              !.stage = "dashboard", !.body = updates, !.before = state,
                              !.response = Thrown]
               /\ UNCHANGED <<state, windowCalls>>
          ELSE /\ state' = applyUpdates(state, updates, now)
               /\ windowCalls' = IF updates.reset = Bool(TRUE)
                                 THEN [c \in ClientIds |-> 0] ELSE windowCalls
               /\ last' = [NoObs("postState") EXCEPT
                              !.path = ApiStatePath(config), !.method = "POST",
                              !.stage = "dashboard", !.body = updates, !.before = state,
                              !.response = Response("state", 200, NULL, StateJson(state'))]
    /\ UNCHANGED <<config, now, route>>

\* A dashboard write, no request being followed.
PostState(bodies) == Write(bodies) /\ UNCHANGED call

\* The window a call of checkRateLimit falls in, by the claim's definition: a
\* call that finds no entry, or comes after resetAt, opens a new window.
CountCall(calls, table, clientId, t) ==
    [calls EXCEPT ![clientId] =
        IF clientId \notin DOMAIN table \/ t > table[clientId].resetAt THEN 1 ELSE @ + 1]

\* Any other request: the chaos pipeline, up to the return of the middleware.
Pipeline(paths, ips) ==
    /\ state.requestCount < RequestBudget(config)
    /\ \E path \in paths, ip \in ips :
        LET tracked == [state EXCEPT !.requestCount = @ + 1]
            clientId == ClientIdOf(ip)
            obs(next, stage, response, limited, eff) ==
                Obs("request", path, "GET", ip, NoPatch, response, next, stage, limited, eff,
                    NoneAction, "none", createState, SpikeFields(state))
        IN  IF ~shouldFuzzRoute(path, config.includeRoutes, config.excludeRoutes)
            THEN /\ state' = tracked
                 /\ last' = obs("now", "route", NoResponse, FALSE, NULL)
                 /\ UNCHANGED windowCalls
            ELSE
              LET rl == checkRateLimit(tracked, config, clientId, now)
              IN  /\ windowCalls' =
                        IF config.behaviors.rateLimit.enabled
                        THEN CountCall(windowCalls, state.rateLimitCounter, clientId, now)
                        ELSE windowCalls
                  /\ IF rl.result
                     THEN /\ state' = [rl.state EXCEPT !.chaosCount = @ + 1]
                          /\ last' = obs("never", "rateLimit", tooManyRequests(config),
                                         TRUE, NULL)
                     ELSE \E gate \in {shouldInjectChaos(rl.state, now, sample) :
                                            sample \in Samples} :
                            IF ~gate.result
                            THEN /\ state' = gate.state
                                 /\ last' = obs("now", "gate", NoResponse, FALSE,
                                                gate.effectiveProbability)
                            ELSE \E action \in ActionsFor(config) :
                                   /\ state' = [gate.state EXCEPT !.chaosCount = @ + 1]
                                   /\ last' = executeAction(action, path, "GET", ip,
                                                            gate.effectiveProbability,
                                                            SpikeFields(state))
    /\ UNCHANGED <<config, now, writes, route>>

\* A request, the timer of a latency action left to the observation
\* (next: "afterDelay").
Request(paths, ips) == Pipeline(paths, ips) /\ UNCHANGED call

Next == Tick \/ DashboardUI \/ GetState \/ PostState(Bodies) \/ Request(ReqPaths, Ips)

Spec == Init /\ [][Next]_vars

\* The end-to-end scenario: an engine built from E2EConfig, requests and the
\* passage of time only.
InitE2E == InitWith({E2EConfig})

NextE2E == Tick \/ Request(ReqPaths, Ips)

SpecE2E == InitE2E /\ [][NextE2E]_vars

\* ------------------------------------------------------- dashboard writes
\* req.body of the dashboard writes that carry nothing the handler accepts:
\* no recognised key, recognised keys of the wrong type, and no body at all.
UnusablePayloads ==
    { NoPatch,
      Patch(StrVal, StrVal, Num(1), StrVal),
      Patch(Num(0), Bool(TRUE), StrVal, Bool(FALSE)),
      Undefined }

Payloads == Bodies \cup UnusablePayloads

InitWrite == InitWith({RoutedConfig})

NextWrite == Tick \/ PostState(Payloads) \/ Request(ReqPaths, Ips)

SpecWrite == InitWrite /\ [][NextWrite]_vars

\* The dashboard between requests: the UI page, reads and writes of the state
\* and the traffic they are interleaved with.
InitDash == InitWith({RoutedConfig})

NextDash == DashboardUI \/ GetState \/ PostState(Payloads) \/ Request(ReqPaths, Ips)

SpecDash == InitDash /\ [][NextDash]_vars

\* ------------------------------------------------ shouldFuzzRoute, alone
PathAlphabet == {"/", "a"}

RECURSIVE SeqsUpTo(_, _)
SeqsUpTo(S, n) ==
    IF n = 0 THEN {<<>>}
    ELSE LET shorter == SeqsUpTo(S, n - 1)
         IN  shorter \cup {Append(q, x) : q \in shorter, x \in S}

Paths == SeqsUpTo(PathAlphabet, MaxPathLen)

\* '/a', '/A', /a$/ and /^\/a/.
Matchers ==
    { StringMatcher(<<"/", "a">>),
      StringMatcher(<<"/", "A">>),
      RegExpMatcher(<<"a">>, FALSE, TRUE),
      RegExpMatcher(<<"/", "a">>, TRUE, FALSE) }

RouteLists == SeqsUpTo(Matchers, MaxListLen)

InitRoute ==
    /\ config = mergeConfig(QuietConfig)
    /\ state = initialState(mergeConfig(QuietConfig))
    /\ now = 0
    /\ last = NoObs("init")
    /\ windowCalls = [c \in ClientIds |-> 0]
    /\ writes = 0
    /\ call = NoCall
    /\ \E path \in Paths, includeRoutes \in RouteLists, excludeRoutes \in RouteLists :
          route = [pc |-> "call", path |-> path, includeRoutes |-> includeRoutes,
                   excludeRoutes |-> excludeRoutes, result |-> FALSE]

CallShouldFuzzRoute ==
    /\ route.pc = "call"
    /\ route' = [route EXCEPT
                    !.pc = "returned",
                    !.result = shouldFuzzRoute(route.path, route.includeRoutes,
                                               route.excludeRoutes)]
    /\ UNCHANGED <<engineVars, call>>

NextRoute == CallShouldFuzzRoute

SpecRoute == InitRoute /\ [][NextRoute]_vars

\* The documented wildcard patterns ('/api/*', '/api/public/*'): shouldFuzzRoute
\* called with a string pattern that ends in '/*', on paths that may hold
\* further segments and the character '*' itself.
MaxGlobPathLen == 4

GlobAlphabet == {"/", "a", "*"}

GlobPaths == SeqsUpTo(GlobAlphabet, MaxGlobPathLen)

\* '/a/*'.
GlobMatcher == StringMatcher(<<"/", "a", "/", "*">>)

GlobLists == { <<>>, <<GlobMatcher>> }

InitGlob ==
    /\ config = mergeConfig(QuietConfig)
    /\ state = initialState(mergeConfig(QuietConfig))
    /\ now = 0
    /\ last = NoObs("init")
    /\ windowCalls = [c \in ClientIds |-> 0]
    /\ writes = 0
    /\ call = NoCall
    /\ \E path \in GlobPaths, includeRoutes \in GlobLists, excludeRoutes \in GlobLists :
          route = [pc |-> "call", path |-> path, includeRoutes |-> includeRoutes,
                   excludeRoutes |-> excludeRoutes, result |-> FALSE]

SpecGlob == InitGlob /\ [][NextRoute]_vars

\* ------------------------------------------ library functions on their own
\* The engine variables of a specification that only calls a library function.
IdleEngine ==
    /\ config = mergeConfig(QuietConfig)
    /\ state = initialState(mergeConfig(QuietConfig))
    /\ now = 0
    /\ last = NoObs("init")
    /\ windowCalls = [c \in ClientIds |-> 0]
    /\ writes = 0
    /\ route = NoRoute

\* selectChaosAction(config) for every combination of the six enabled flags.
SelectorConfig(l, e, t, b, z, h) ==
    mergeConfig(
        [ behaviors |->
            [ latency |-> [enabled |-> l, minMs |-> 1, maxMs |-> 2],
              errors |-> [enabled |-> e, statusCodes |-> <<500, 503>>],
              timeout |-> [enabled |-> t, probability |-> 5],
              bodyMutation |-> [enabled |-> b],
              zombieMode |-> [enabled |-> z, probability |-> 5],
              headerHavoc |-> [enabled |-> h, targetHeaders |-> <<"x-a", "x-b">>] ] ])

SelectorConfigs ==
    { SelectorConfig(l, e, t, b, z, h) : l \in BOOLEAN, e \in BOOLEAN, t \in BOOLEAN,
                                         b \in BOOLEAN, z \in BOOLEAN, h \in BOOLEAN }

\* Math.random() for the two secondary trials (either side of 0.5), for the
\* pick among up to six producers (one sample per index) and for the draws
\* of the producer invoked.
TrialSamples == {4, 5}
PickSamples == {0, 2, 4, 5, 7, 9}
DrawSamples == {0, 9}

InitSelect ==
    /\ IdleEngine
    /\ \E cfg \in SelectorConfigs, rTimeout \in TrialSamples, rZombie \in TrialSamples,
          rPick \in PickSamples, r1 \in DrawSamples, r2 \in DrawSamples :
          call = [pc |-> "call", fn |-> "selectChaosAction", cfg |-> cfg,
                  rTimeout |-> rTimeout, rZombie |-> rZombie, rPick |-> rPick,
                  r1 |-> r1, r2 |-> r2, result |-> NoneAction]

CallSelectChaosAction ==
    /\ call.pc = "call"
    /\ call' = [call EXCEPT
                   !.pc = "returned",
                   !.result = selectChaosAction(call.cfg, call.rTimeout, call.rZombie,
                                                call.rPick, call.r1, call.r2)]
    /\ UNCHANGED <<engineVars, route>>

NextSelect == CallSelectChaosAction

SpecSelect == InitSelect /\ [][NextSelect]_vars

\* ------------------------------------------------------------- mutateBody
\* A JSON value: the tag typeof / Array.isArray / === null distinguishes, the
\* payload of a primitive (s, n or b), and for a container its keys (an
\* object's own keys in entry order; empty for an array) and its members.
JVal(type, s, n, b, keys, kids) ==
    [type |-> type, s |-> s, n |-> n, b |-> b, keys |-> keys, kids |-> kids]

JNull == JVal("null", "", 0, FALSE, <<>>, <<>>)
JUndefined == JVal("undefined", "", 0, FALSE, <<>>, <<>>)
JString(s) == JVal("string", s, 0, FALSE, <<>>, <<>>)
JNumber(n) == JVal("number", "", n, FALSE, <<>>, <<>>)
JBoolean(b) == JVal("boolean", "", 0, b, <<>>, <<>>)
JArray(kids) == JVal("array", "", 0, FALSE, <<>>, kids)
JObject(keys, kids) == JVal("object", "", 0, FALSE, keys, kids)

\* The value every mutated number is replaced by.
MutatedNumber == -999

\* The k-th value of Math.random() in a call, from a stream of samples that
\* repeats.
Draw(rnd, k) == rnd[(k % Len(rnd)) + 1]

\* Mutant: a sample equal to fieldProbability mutates too (<= for <).
mutateLeaf_Inclusive(body, fieldProbability, r) ==
    CASE body.type = "string" -> IF r <= fieldProbability THEN JUndefined ELSE body
      [] body.type = "number" -> IF r <= fieldProbability THEN JNumber(MutatedNumber) ELSE body
      [] body.type = "boolean" -> IF r <= fieldProbability THEN JBoolean(~body.b) ELSE body

\* Mutant: numbers are never mutated.
mutateLeaf_KeepsNumbers(body, fieldProbability, r) ==
    CASE body.type = "string" -> IF r < fieldProbability THEN JUndefined ELSE body
      [] body.type = "number" -> body
      [] body.type = "boolean" -> IF r < fieldProbability THEN JBoolean(~body.b) ELSE body

\* The three primitive branches, with the sample r the branch draws.
mutateLeaf(body, fieldProbability, r) ==
    CASE body.type = "string" -> IF r < fieldProbability THEN JUndefined ELSE body
      [] body.type = "number" -> IF r < fieldProbability THEN JNumber(MutatedNumber) ELSE body
      [] body.type = "boolean" -> IF r < fieldProbability THEN JBoolean(~body.b) ELSE body

\* mutateBody(body, fieldProbability) with the samples rnd, the first k of
\* which are used up: the value returned and the number of samples used up
\* after the call.  mutateEach is body.map(...) and the for..of loop over
\* Object.entries(body): the members in order, each through mutateBody.
RECURSIVE mutateBody(_, _, _, _)
RECURSIVE mutateEach(_, _, _, _, _)
mutateEach(kids, fieldProbability, rnd, k, i) ==
    IF i > Len(kids) THEN [values |-> <<>>, k |-> k]
    ELSE LET head == mutateBody(kids[i], fieldProbability, rnd, k)
             tail == mutateEach(kids, fieldProbability, rnd, head.k, i + 1)
         IN  [values |-> <<head.value>> \o tail.values, k |-> tail.k]

mutateBody(body, fieldProbability, rnd, k) ==
    CASE body.type \in {"null", "undefined"} -> [value |-> body, k |-> k]
      [] body.type \in {"string", "number", "boolean"} ->
            [value |-> mutateLeaf(body, fieldProbability, Draw(rnd, k)), k |-> k + 1]
      [] body.type = "array" ->
            LET mapped == mutateEach(body.kids, fieldProbability, rnd, k, 1)
            IN  [value |-> JArray(mapped.values), k |-> mapped.k]
      [] body.type = "object" ->
            LET mutated == mutateEach(body.kids, fieldProbability, rnd, k, 1)
            IN  [value |-> JObject(body.keys, mutated.values), k |-> mutated.k]
      [] OTHER -> [value |-> body, k |-> k]

\* The bodies mutateBody is called with: leaves, and up to MaxBodyDepth
\* levels of arrays and objects around them.
MaxBodyDepth == 2

JsonLeaves == {JNull, JString("s"), JNumber(7), JBoolean(TRUE), JBoolean(FALSE)}

\* The containers with v as a member, next to leaves or to itself.
Wrap(v) ==
    {JArray(<<v>>), JObject(<<"a">>, <<v>>), JArray(<<v, v>>),
     JObject(<<"a", "b">>, <<v, v>>)}
    \cup {JArray(<<v, l>>) : l \in JsonLeaves}
    \cup {JArray(<<l, v>>) : l \in JsonLeaves}
    \cup {JObject(<<"a", "b">>, <<v, l>>) : l \in JsonLeaves}

RECURSIVE JsonBodies(_)
JsonBodies(depth) ==
    IF depth = 0 THEN JsonLeaves \cup {JArray(<<>>), JObject(<<>>, <<>>)}
    ELSE LET inner == JsonBodies(depth - 1)
         IN  inner \cup UNION {Wrap(v) : v \in inner}

\* fieldProbability 0, 0.5 and 1.
FieldProbabilities == {0, 5, 10}

\* Math.random() at its extremes, in every order.
RndStreams == {<<0>>, <<9>>, <<0, 9>>, <<9, 0>>}

InitMutate ==
    /\ IdleEngine
    /\ \E body \in JsonBodies(MaxBodyDepth), fieldProbability \in FieldProbabilities,
          rnd \in RndStreams :
          call = [pc |-> "call", fn |-> "mutateBody", body |-> body,
                  fieldProbability |-> fieldProbability, rnd |-> rnd, result |-> JUndefined]

CallMutateBody ==
    /\ call.pc = "call"
    /\ call' = [call EXCEPT
                   !.pc = "returned",
                   !.result = mutateBody(call.body, call.fieldProbability, call.rnd, 0).value]
    /\ UNCHANGED <<engineVars, route>>

NextMutate == CallMutateBody

SpecMutate == InitMutate /\ [][NextMutate]_vars

\* ------------------------------------------------------- applyHeaderHavoc
\* A header value: a string (its characters) or a list of strings.
HString(s) == [type |-> "string", s |-> s, items |-> <<>>]
HList(items) == [type |-> "array", s |-> <<>>, items |-> items]

\* A header map is the sequence of its entries in key order (Object.keys),
\* the names distinct.
Header(name, value) == [name |-> name, value |-> value]

Keys(headers) == [i \in 1..Len(headers) |-> headers[i].name]

HasKey(headers, name) == \E i \in 1..Len(headers) : headers[i].name = name

IndexOf(headers, name) == CHOOSE i \in 1..Len(headers) : headers[i].name = name

\* name.toLowerCase(), for the header names in use.
toLowerCase(name) ==
    CASE name = "Content-Type" -> "content-type"
      [] name = "CONTENT-TYPE" -> "content-type"
      [] name = "X-A" -> "x-a"
      [] OTHER -> name

\* value.split('').reverse().join('').
RECURSIVE Reverse(_)
Reverse(s) == IF Len(s) = 0 THEN <<>> ELSE Append(Reverse(Tail(s)), Head(s))

TextPlain == <<"t", "e", "x", "t", "/", "p", "l", "a", "i", "n">>
ChaosSuffix == <<";", " ", "c", "h", "a", "o", "s", "=", "t", "r", "u", "e">>

\* Truthiness of modifiedHeaders[targetHeader]: undefined for a name that is
\* no key and '' are falsy, every other string and every array is truthy.
HeaderTruthy(headers, name) ==
    /\ HasKey(headers, name)
    /\ LET value == headers[IndexOf(headers, name)].value
       IN  value.type = "array" \/ Len(value.s) > 0

\* delete modifiedHeaders[headerToMess].
DeleteKey(headers, name) ==
    LET kept == {i \in 1..Len(headers) : headers[i].name # name}
        RECURSIVE pick(_)
        pick(i) == IF i > Len(headers) THEN <<>>
                   ELSE (IF i \in kept THEN <<headers[i]>> ELSE <<>>) \o pick(i + 1)
    IN  pick(1)

\* modifiedHeaders[name] = value, for a name that is a key.
SetKey(headers, name, value) ==
    [i \in 1..Len(headers) |->
        IF headers[i].name = name THEN Header(name, value) ELSE headers[i]]

\* The header acted on; targetHeader is "" when the argument is omitted (an
\* empty string is falsy like undefined).
headerToMess(headers, targetHeader, r) ==
    IF targetHeader # "" /\ HeaderTruthy(headers, targetHeader)
    THEN targetHeader
    ELSE randomChoice(Keys(headers), r)

\* case 'scramble'.
scramble(originalValue) ==
    IF originalValue.type = "string" THEN HString(Reverse(originalValue.s))
    ELSE HList([i \in 1..Len(originalValue.items) |-> Reverse(originalValue.items[i])])

\* Mutant: the header name is compared as it is written.
alter_CaseSensitive(name, currentValue) ==
    IF name = "content-type" THEN HString(TextPlain)
    ELSE IF currentValue.type = "string" THEN HString(currentValue.s \o ChaosSuffix)
    ELSE currentValue

\* case 'alter'.
alter(name, currentValue) ==
    IF toLowerCase(name) = "content-type" THEN HString(TextPlain)
    ELSE IF currentValue.type = "string" THEN HString(currentValue.s \o ChaosSuffix)
    ELSE currentValue

\* applyHeaderHavoc(headers, action, targetHeader) with the sample r of its
\* randomChoice: the map returned and the header it acted on ("" if none).
applyHeaderHavoc(headers, action, targetHeader, r) ==
    IF Len(headers) = 0 THEN [headers |-> headers, headerToMess |-> ""]
    ELSE
        LET name == headerToMess(headers, targetHeader, r)
            value == headers[IndexOf(headers, name)].value
        IN  [ headerToMess |-> name,
              headers |->
                CASE action = "delete" -> DeleteKey(headers, name)
                  [] action = "scramble" -> SetKey(headers, name, scramble(value))
                  [] action = "alter" -> SetKey(headers, name, alter(name, value))
                  [] OTHER -> headers ]

\* The header maps applyHeaderHavoc is called with: up to MaxHeaders entries.
MaxHeaders == 2

HeaderNames == {"Content-Type", "content-type", "x-a"}

ApplicationJson == <<"a", "p", "p", "l", "i", "c", "a", "t", "i", "o", "n", "/", "j", "s", "o", "n">>

\* '', 'application/json' and ['ab', 'cd'].
HeaderValues ==
    { HString(<<>>), HString(ApplicationJson), HList(<< <<"a", "b">>, <<"c", "d">> >>) }

RECURSIVE HeaderMaps(_)
HeaderMaps(n) ==
    IF n = 0 THEN {<<>>}
    ELSE LET shorter == HeaderMaps(n - 1)
         IN  shorter \cup
             { Append(h, Header(name, value)) :
                   h \in {g \in shorter : Len(g) = n - 1},
                   name \in HeaderNames, value \in HeaderValues }

DistinctNames(headers) ==
    \A i, j \in 1..Len(headers) : headers[i].name = headers[j].name => i = j

InitHavoc ==
    /\ IdleEngine
    /\ \E headers \in {h \in HeaderMaps(MaxHeaders) : DistinctNames(h)},
          action \in {"delete", "scramble", "alter"},
          targetHeader \in HeaderNames \cup {""}, r \in DrawSamples :
          call = [pc |-> "call", fn |-> "applyHeaderHavoc", headers |-> headers,
                  action |-> action, targetHeader |-> targetHeader, r |-> r,
                  result |-> <<>>, headerToMess |-> "", first |-> <<>>]

\* One call; a returned map can be passed in again with the same action and
\* target (first keeps what the first call returned).
CallApplyHeaderHavoc ==
    /\ call.pc = "call"
    /\ LET ret == applyHeaderHavoc(call.headers, call.action, call.targetHeader, call.r)
       IN  call' = [call EXCEPT !.pc = "returned", !.result = ret.headers,
                                !.headerToMess = ret.headerToMess, !.first = ret.headers]
    /\ UNCHANGED <<engineVars, route>>

CallApplyHeaderHavocAgain ==
    /\ call.pc = "returned"
    /\ \E r \in DrawSamples :
          LET ret == applyHeaderHavoc(call.result, call.action, call.targetHeader, r)
          IN  call' = [call EXCEPT !.pc = "returnedAgain", !.r = r, !.result = ret.headers,
                                   !.headerToMess = ret.headerToMess]
    /\ UNCHANGED <<engineVars, route>>

NextHavoc == CallApplyHeaderHavoc \/ CallApplyHeaderHavocAgain

SpecHavoc == InitHavoc /\ [][NextHavoc]_vars

\* ------------------------------------------------------------ ZombieStream
\* Chunks are sequences of bytes; at most MaxChunks are written to a stream.
MaxChunks == 2

Bytes == {65, 66}

Chunks == {<<>>} \cup {<<x>> : x \in Bytes} \cup {<<x, y>> : x \in Bytes, y \in Bytes}

\* Buffer.concat(list).
RECURSIVE BufferConcat(_)
BufferConcat(list) ==
    IF Len(list) = 0 THEN <<>> ELSE Head(list) \o BufferConcat(Tail(list))

\* Mutant: the loop stops one byte early.
dripLoopCondition_OneShort(i, fullBuffer) == i < Len(fullBuffer) - 1

\* i < fullBuffer.length.
dripLoopCondition(i, fullBuffer) == i < Len(fullBuffer)

\* new ZombieStream(...): nothing buffered, drip not called; sink and ends
\* are what the target stream has received (its write calls, its end calls),
\* buffered is this.buffer as it was when drip was called.
InitDrip ==
    /\ IdleEngine
    /\ call = [pc |-> "open", fn |-> "drip", buffer |-> <<>>, buffered |-> <<>>,
               fullBuffer |-> <<>>, i |-> 0, sink |-> <<>>, ends |-> 0]

\* _write(chunk): also while drip is suspended in its sleep.
StreamWrite ==
    /\ call.pc \in {"open", "sleeping"}
    /\ Len(call.buffer) < MaxChunks
    /\ \E chunk \in Chunks : call' = [call EXCEPT !.buffer = Append(@, chunk)]
    /\ UNCHANGED <<engineVars, route>>

\* drip(targetStream) up to its loop.
DripStart ==
    /\ call.pc = "open"
    /\ call' = [call EXCEPT !.pc = "loop", !.buffered = call.buffer,
                            !.fullBuffer = BufferConcat(call.buffer), !.i = 0]
    /\ UNCHANGED <<engineVars, route>>

\* One iteration up to the await: targetStream.write(Buffer.from([fullBuffer[i]])).
DripWrite ==
    /\ call.pc = "loop"
    /\ dripLoopCondition(call.i, call.fullBuffer)
    /\ call' = [call EXCEPT !.pc = "sleeping",
                            !.sink = Append(@, <<call.fullBuffer[call.i + 1]>>)]
    /\ UNCHANGED <<engineVars, route>>

\* The timer fires: i++.
DripWake ==
    /\ call.pc = "sleeping"
    /\ call' = [call EXCEPT !.pc = "loop", !.i = @ + 1]
    /\ UNCHANGED <<engineVars, route>>

\* The loop is left: targetStream.end().
DripEnd ==
    /\ call.pc = "loop"
    /\ ~dripLoopCondition(call.i, call.fullBuffer)
    /\ call' = [call EXCEPT !.pc = "done", !.ends = @ + 1]
    /\ UNCHANGED <<engineVars, route>>

NextDrip == StreamWrite \/ DripStart \/ DripWrite \/ DripWake \/ DripEnd

SpecDrip == InitDrip /\ [][NextDrip]_vars

\* -------------------------------------------------------------- mergeConfig
\* The number of behaviour blocks a user configuration supplies at most.
MaxBlocks == 2

\* The values a user configuration supplies: every one differs from the default.
userValues ==
    [ probability |-> 5,
      enabled |-> FALSE,
      includeRoutes |-> <<StringMatcher(<<"/", "a">>)>>,
      excludeRoutes |-> <<StringMatcher(<<"/", "b">>)>>,
      dashboardPath |-> <<"/", "d">>,
      silent |-> TRUE,
      behaviors |->
        [ latency |-> [enabled |-> FALSE, minMs |-> 200, maxMs |-> 500],
          errors |-> [enabled |-> FALSE, statusCodes |-> <<418>>],
          timeout |-> [enabled |-> FALSE, probability |-> 7],
          bodyMutation |-> [enabled |-> FALSE, statusCodes |-> <<201>>, fieldProbability |-> 6],
          zombieMode |-> [enabled |-> FALSE, bytesPerSecond |-> 1, probability |-> 4],
          headerHavoc |-> [enabled |-> FALSE, targetHeaders |-> <<"x-a">>],
          rateLimit |-> [enabled |-> FALSE, requestLimit |-> 1, windowMs |-> 1000,
                         retryAfterSeconds |-> 1] ] ]

TopKeys == DOMAIN defaultConfig \ {"behaviors"}

BlockNames == DOMAIN defaultConfig.behaviors

\* The top-level keys a user configuration supplies: none, one, or all.
TopKeySets == {{}} \cup {{k} : k \in TopKeys} \cup {TopKeys}

\* A partial configuration: the keys of top, and, when withBehaviors, the
\* blocks of DOMAIN keysOf with the keys keysOf[b] in block b.
UserConfig(top, withBehaviors, keysOf) ==
    LET flat == [k \in top |-> userValues[k]]
        blocks == [b \in DOMAIN keysOf |->
                      [k \in keysOf[b] |-> userValues.behaviors[b][k]]]
    IN  IF withBehaviors
        THEN [k \in top \cup {"behaviors"} |->
                 IF k = "behaviors" THEN blocks ELSE flat[k]]
        ELSE flat

\* The functions from at most n behaviour blocks to a set of keys of the block.
RECURSIVE KeyChoices(_)
KeyChoices(n) ==
    IF n = 0
    THEN {[b \in {} |-> {}]}
    ELSE LET fewer == KeyChoices(n - 1)
         IN  fewer \cup
             UNION {UNION {{[c \in DOMAIN f \cup {b} |-> IF c = b THEN S ELSE f[c]] :
                              S \in SUBSET DOMAIN defaultConfig.behaviors[b]} :
                           b \in BlockNames \ DOMAIN f} :
                    f \in fewer}

InitMerge ==
    /\ IdleEngine
    /\ \E top \in TopKeySets, withBehaviors \in BOOLEAN, keysOf \in KeyChoices(MaxBlocks) :
          /\ withBehaviors \/ DOMAIN keysOf = {}
          /\ call = [pc |-> "call", fn |-> "mergeConfig",
                     userConfig |-> UserConfig(top, withBehaviors, keysOf),
                     result |-> defaultConfig]

CallMergeConfig ==
    /\ call.pc = "call"
    /\ call' = [call EXCEPT !.pc = "returned", !.result = mergeConfig(call.userConfig)]
    /\ UNCHANGED <<engineVars, route>>

NextMerge == CallMergeConfig

SpecMerge == InitMerge /\ [][NextMerge]_vars

\* -------------------------------------------------------- shouldInjectChaos
\* The states the gate is called in: any enabled flag and probability, no
\* spike or a spike activated at time 0, and some requests already counted.
GateProbabilities == 0..10

GateStates ==
    { [createState EXCEPT !.enabled = enabled, !.probability = probability,
                          !.spikeMode = spike,
                          !.spikeModeExpiry = IF spike THEN SpikeDurationMs ELSE NULL,
                          !.requestCount = 1]
        : enabled \in BOOLEAN, probability \in GateProbabilities, spike \in BOOLEAN }

\* Date.now() at the call: before, at and after the deadline of the spike.
GateTimes == {0, SpikeDurationMs, SpikeDurationMs + 1}

InitGate ==
    /\ IdleEngine
    /\ \E st \in GateStates, t \in GateTimes, sample \in Samples :
          call = [pc |-> "call", fn |-> "shouldInjectChaos", st |-> st, t |-> t,
                  sample |-> sample,
                  result |-> [state |-> st, result |-> FALSE, effectiveProbability |-> NULL]]

CallShouldInjectChaos ==
    /\ call.pc = "call"
    /\ call' = [call EXCEPT !.pc = "returned",
                            !.result = shouldInjectChaos(call.st, call.t, call.sample)]
    /\ UNCHANGED <<engineVars, route>>

NextGate == CallShouldInjectChaos

SpecGate == InitGate /\ [][NextGate]_vars

\* ------------------------------------------- zombieMode in the Express adapter
\* The length of the payload the handler ends its response with, and the
\* number of times drip is started again, at most.
MaxPayloadLen == 3
MaxRounds == 2

EndChunks == SeqsUpTo(Bytes, MaxPayloadLen)

\* case 'zombieMode' has replaced res.end and called next(): the handler is
\* about to end its response with a payload. sink and ends are what the
\* response itself has received (res.write calls, calls of the original
\* res.end), rounds is the number of drip calls started.
InitZombie ==
    /\ IdleEngine
    /\ \E chunk \in EndChunks :
          call = [pc |-> "handler", fn |-> "zombieMode", chunk |-> chunk, buffer |-> <<>>,
                  fullBuffer |-> <<>>, i |-> 0, sink |-> <<>>, ends |-> 0, rounds |-> 0]

\* The handler calls res.end(chunk), which is the replacement: the chunk, if
\* truthy, is written to the zombie stream, the zombie stream is ended and
\* drip(res) runs up to its loop.
ZombieResEnd ==
    /\ call.pc = "handler"
    /\ LET buffer == IF Len(call.chunk) > 0 THEN Append(call.buffer, call.chunk)
                     ELSE call.buffer
       IN  call' = [call EXCEPT !.pc = "loop", !.buffer = buffer,
                                !.fullBuffer = BufferConcat(buffer), !.i = 0,
                                !.rounds = @ + 1]
    /\ UNCHANGED <<engineVars, route>>

\* One iteration of drip up to the await: res.write(Buffer.from([fullBuffer[i]])).
ZombieDripWrite ==
    /\ call.fn = "zombieMode"
    /\ call.pc = "loop"
    /\ dripLoopCondition(call.i, call.fullBuffer)
    /\ call' = [call EXCEPT !.pc = "sleeping",
                            !.sink = Append(@, <<call.fullBuffer[call.i + 1]>>)]
    /\ UNCHANGED <<engineVars, route>>

\* The timer fires: i++.
ZombieDripWake ==
    /\ call.fn = "zombieMode"
    /\ call.pc = "sleeping"
    /\ call' = [call EXCEPT !.pc = "loop", !.i = @ + 1]
    /\ UNCHANGED <<engineVars, route>>

\* The loop is left: targetStream.end() is res.end, which at this point is the
\* replacement. Called without a chunk it writes nothing, ends the zombie
\* stream again (no effect) and calls drip(res) again, which concatenates the
\* buffer, never emptied, once more. With an empty buffer the new drip reaches
\* its own targetStream.end() without suspending, and so on until the call
\* stack is exhausted and the innermost drip rejects with a RangeError.
ZombieDripEnd ==
    /\ call.fn = "zombieMode"
    /\ call.pc = "loop"
    /\ ~dripLoopCondition(call.i, call.fullBuffer)
    /\ call.rounds <= MaxRounds
    /\ IF Len(BufferConcat(call.buffer)) = 0
       THEN call' = [call EXCEPT !.pc = "rangeError"]
       ELSE call' = [call EXCEPT !.pc = "loop", !.fullBuffer = BufferConcat(call.buffer),
                                 !.i = 0, !.rounds = @ + 1]
    /\ UNCHANGED <<engineVars, route>>

NextZombie == ZombieResEnd \/ ZombieDripWrite \/ ZombieDripWake \/ ZombieDripEnd

\* Every timer set by drip fires, and code that can run does run.
SpecZombie == InitZombie /\ [][NextZombie]_vars /\ WF_vars(NextZombie)

\* --------------------------------- selectChaosAction, the secondary trials
\* selectChaosAction(config) for every combination of the six enabled flags
\* and the probabilities 0, 0.5 and 1 of the two secondary trials.
TrialConfig(l, e, t, b, z, h, pTimeout, pZombie) ==
    mergeConfig(
        [ behaviors |->
            [ latency |-> [enabled |-> l, minMs |-> 1, maxMs |-> 2],
              errors |-> [enabled |-> e, statusCodes |-> <<500, 503>>],
              timeout |-> [enabled |-> t, probability |-> pTimeout],
              bodyMutation |-> [enabled |-> b],
              zombieMode |-> [enabled |-> z, probability |-> pZombie],
              headerHavoc |-> [enabled |-> h, targetHeaders |-> <<"x-a", "x-b">>] ] ])

TrialProbabilities == {0, 5, 10}

TrialConfigs ==
    { TrialConfig(l, e, t, b, z, h, pTimeout, pZombie) :
        l \in BOOLEAN, e \in BOOLEAN, t \in BOOLEAN, b \in BOOLEAN, z \in BOOLEAN,
        h \in BOOLEAN, pTimeout \in TrialProbabilities, pZombie \in TrialProbabilities }

\* Math.random() for the secondary trials: the ends of [0, 1) and either side
\* of 0.5.
WideTrialSamples == {0, 4, 5, 9}

InitTrial ==
    /\ IdleEngine
    /\ \E cfg \in TrialConfigs, rTimeout \in WideTrialSamples, rZombie \in WideTrialSamples,
          rPick \in PickSamples :
          call = [pc |-> "call", fn |-> "selectChaosAction", cfg |-> cfg,
                  rTimeout |-> rTimeout, rZombie |-> rZombie, rPick |-> rPick,
                  r1 |-> 0, r2 |-> 0, result |-> NoneAction]

SpecTrial == InitTrial /\ [][NextSelect]_vars

\* ------------------------------------------ selectChaosAction, the draws
\* selectChaosAction(config) with latency and errors enabled or not, over
\* several status-code lists and latency ranges.
DrawConfig(l, e, statusCodes, minMs, maxMs) ==
    mergeConfig(
        [ behaviors |->
            [ latency |-> [enabled |-> l, minMs |-> minMs, maxMs |-> maxMs],
              errors |-> [enabled |-> e, statusCodes |-> statusCodes],
              timeout |-> [enabled |-> FALSE],
              bodyMutation |-> [enabled |-> FALSE],
              zombieMode |-> [enabled |-> FALSE],
              headerHavoc |-> [enabled |-> FALSE] ] ])

StatusCodeLists == { <<>>, <<503>>, <<500, 503>>, defaultConfig.behaviors.errors.statusCodes }

\* minMs and maxMs: ranges of 1, 2, 4 and 10 values, and one with minMs > maxMs.
LatencyRanges ==
    { <<minMs, minMs + span>> : minMs \in {0, 1, 100}, span \in {0, 1, 3, 9} } \cup { <<3, 1>> }

DrawConfigs ==
    { DrawConfig(l, e, statusCodes, range[1], range[2]) :
        l \in BOOLEAN, e \in BOOLEAN, statusCodes \in StatusCodeLists, range \in LatencyRanges }

InitDraw ==
    /\ IdleEngine
    /\ \E cfg \in DrawConfigs, rPick \in {0, 5, 9}, r1 \in Samples :
          call = [pc |-> "call", fn |-> "selectChaosAction", cfg |-> cfg,
                  rTimeout |-> 0, rZombie |-> 0, rPick |-> rPick,
                  r1 |-> r1, r2 |-> 0, result |-> NoneAction]

SpecDraw == InitDraw /\ [][NextSelect]_vars

\* ------------------------------------------- next() in the Express adapter
\* The calls of next() made for the request handled last. call records the
\* pipeline stage the middleware returned from, the type of the action it
\* executed, the time the timer of sleep(delayMs) is due, the number of
\* calls of next() so far and whether the engine was switched off while the
\* request was suspended; pc is "sleeping" while that timer is pending.
NextCallsOf(obs) == IF obs.next = "now" THEN 1 ELSE 0

\* A request, followed up to the calls of next() made on its behalf. Requests
\* are taken one at a time: none arrives while a timer is pending.
TimedRequest(paths, ips) ==
    /\ call.pc # "sleeping"
    /\ Pipeline(paths, ips)
    /\ call' = [pc |-> IF last'.next = "afterDelay" THEN "sleeping" ELSE "done",
                fn |-> "middleware", stage |-> last'.stage, type |-> last'.action.type,
                due |-> IF last'.next = "afterDelay" THEN now + last'.action.delayMs
                        ELSE now,
                nextCalls |-> NextCallsOf(last'), disabled |-> FALSE]

\* Mutant: the timer of a request is dropped when the engine is disabled.
SleepElapses_UnlessDisabled ==
    /\ call.pc = "sleeping"
    /\ state.enabled
    /\ now' = Max(now, call.due)
    /\ call' = [call EXCEPT !.pc = "done", !.nextCalls = @ + 1]
    /\ UNCHANGED <<config, state, last, windowCalls, writes, route>>

\* The timer of sleep(delayMs) fires, time having reached its due time at
\* least: .then(() => next()).
SleepElapses ==
    /\ call.pc = "sleeping"
    /\ now' = Max(now, call.due)
    /\ call' = [call EXCEPT !.pc = "done", !.nextCalls = @ + 1]
    /\ UNCHANGED <<config, state, last, windowCalls, writes, route>>

\* A dashboard write, possibly while the request handled last is suspended:
\* the POST branch has no access to the timer or to the action selected.
TimedWrite(bodies) ==
    /\ Write(bodies)
    /\ call' = IF call.pc = "sleeping"
               THEN [call EXCEPT !.disabled = @ \/ ~state'.enabled]
               ELSE call

InitTimed == InitWith({RoutedConfig, LoneTimeoutConfig})

NextTimed == Tick \/ TimedRequest(ReqPaths, Ips) \/ SleepElapses

\* A timer that has been set fires.
SpecTimed == InitTimed /\ [][NextTimed]_vars /\ WF_vars(SleepElapses)

\* ------------------------------------- bodyMutation, the wrapped res.send
\* The argument of res.send / res.json: a string, which is the JSON text of
\* a value or no JSON at all, or a value passed as it is, or undefined.
Text(v) == [form |-> "text", json |-> TRUE, value |-> v]
Garbage == [form |-> "text", json |-> FALSE, value |-> JUndefined]
Value(v) == [form |-> "value", json |-> FALSE, value |-> v]
NoPayload == [form |-> "undefined", json |-> FALSE, value |-> JUndefined]

\* tryParseJSON(body): JSON.parse, null when it throws.
tryParseJSON(body) == IF body.json THEN body.value ELSE JNull

\* if (parsed): JavaScript truthiness of a value.
JTruthy(v) ==
    CASE v.type \in {"null", "undefined"} -> FALSE
      [] v.type = "string" -> v.s # ""
      [] v.type = "number" -> v.n # 0
      [] v.type = "boolean" -> v.b
      [] OTHER -> TRUE

\* The value a JSON text written by JSON.stringify denotes: undefined members
\* are left out of objects and become null in arrays.
RECURSIVE Serialised(_)
RECURSIVE SerialisedKids(_, _)
SerialisedKids(kids, i) ==
    IF i > Len(kids) THEN <<>>
    ELSE <<IF kids[i].type = "undefined" THEN JNull ELSE Serialised(kids[i])>>
         \o SerialisedKids(kids, i + 1)

RECURSIVE KeptKeys(_, _, _)
KeptKeys(keys, kids, i) ==
    IF i > Len(keys) THEN <<>>
    ELSE (IF kids[i].type = "undefined" THEN <<>> ELSE <<keys[i]>>)
         \o KeptKeys(keys, kids, i + 1)

RECURSIVE KeptKids(_, _)
KeptKids(kids, i) ==
    IF i > Len(kids) THEN <<>>
    ELSE (IF kids[i].type = "undefined" THEN <<>> ELSE <<Serialised(kids[i])>>)
         \o KeptKids(kids, i + 1)

Serialised(v) ==
    CASE v.type = "array" -> JArray(SerialisedKids(v.kids, 1))
      [] v.type = "object" -> JObject(KeptKeys(v.keys, v.kids, 1), KeptKids(v.kids, 1))
      [] OTHER -> v

\* JSON.stringify(v): undefined for undefined.
stringify(v) == IF v.type = "undefined" THEN NoPayload ELSE Text(Serialised(v))

\* The values of the Content-Type header at the time of the call ("" for a
\* header not set), and those that include 'application/json'.
ContentTypes == {"application/json; charset=utf-8", "text/html; charset=utf-8", ""}
IncludesApplicationJson(contentType) == contentType = "application/json; charset=utf-8"

\* list.includes(x).
Includes(list, x) == \E k \in 1..Len(list) : list[k] = x

\* Mutant: the replacement of res.send mutates whatever the status code.
resSend_AnyStatus(statusCode, contentType, body, cfg, rnd) ==
    LET parsed == IF body.form = "text" THEN tryParseJSON(body) ELSE body.value
    IN  IF IncludesApplicationJson(contentType) /\ JTruthy(parsed)
        THEN stringify(mutateBody(parsed, cfg.behaviors.bodyMutation.fieldProbability,
                                  rnd, 0).value)
        ELSE body

\* The replacement of res.send installed by case 'bodyMutation' of the
\* Express adapter: what it hands to the original res.send.
resSend(statusCode, contentType, body, cfg, rnd) ==
    LET parsed == IF body.form = "text" THEN tryParseJSON(body) ELSE body.value
    IN  IF /\ Includes(cfg.behaviors.bodyMutation.statusCodes, statusCode)
           /\ IncludesApplicationJson(contentType)
           /\ JTruthy(parsed)
        THEN stringify(mutateBody(parsed, cfg.behaviors.bodyMutation.fieldProbability,
                                  rnd, 0).value)
        ELSE body

\* The replacement of res.json installed by case 'bodyMutation' of
\* fuzzboxApiRoute: what it hands to the original res.json.
resJson(statusCode, body, cfg, rnd) ==
    IF Includes(cfg.behaviors.bodyMutation.statusCodes, statusCode)
    THEN Value(mutateBody(body.value, cfg.behaviors.bodyMutation.fieldProbability,
                          rnd, 0).value)
    ELSE body

\* Configurations with one and with two status codes to mutate, at
\* fieldProbability 0 and 1.
SendConfigs ==
    { mergeConfig([behaviors |->
                     [bodyMutation |-> [statusCodes |-> statusCodes,
                                        fieldProbability |-> fieldProbability]]]) :
        statusCodes \in {<<200>>, <<200, 201>>}, fieldProbability \in {0, 10} }

StatusCodes == {200, 201, 500}

SentBodies ==
    {Garbage} \cup {Text(v) : v \in JsonBodies(1)} \cup {Value(v) : v \in JsonBodies(1)}

InitSend ==
    /\ IdleEngine
    /\ \E cfg \in SendConfigs, statusCode \in StatusCodes, contentType \in ContentTypes,
          body \in SentBodies, fn \in {"res.send", "res.json"} :
          /\ fn = "res.json" => (body.form = "value" /\ contentType = "")
          /\ call = [pc |-> "call", fn |-> fn, cfg |-> cfg, statusCode |-> statusCode,
                     contentType |-> contentType, body |-> body, rnd |-> <<0>>,
                     result |-> NoPayload]

\* The handler calls res.send(body) in the Express adapter.
CallResSend ==
    /\ call.pc = "call"
    /\ call.fn = "res.send"
    /\ call' = [call EXCEPT !.pc = "returned",
                            !.result = resSend(call.statusCode, call.contentType, call.body,
                                               call.cfg, call.rnd)]
    /\ UNCHANGED <<engineVars, route>>

\* The handler calls res.json(body) under fuzzboxApiRoute.
CallResJson ==
    /\ call.pc = "call"
    /\ call.fn = "res.json"
    /\ call' = [call EXCEPT !.pc = "returned",
                            !.result = resJson(call.statusCode, call.body, call.cfg,
                                               call.rnd)]
    /\ UNCHANGED <<engineVars, route>>

NextSend == CallResSend \/ CallResJson

SpecSend == InitSend /\ [][NextSend]_vars

\* The dashboard writes made while requests are in flight: disable, a new
\* probability, a spike, a reset.
FlightBodies ==
    { Patch(Bool(FALSE), Undefined, Undefined, Undefined),
      Patch(Undefined, Num(0), Undefined, Undefined),
      Patch(Undefined, Undefined, Bool(TRUE), Undefined),
      Patch(Undefined, Undefined, Undefined, Bool(TRUE)) }

\* A request suspended in its latency or hanging in a timeout, and the
\* dashboard writes that arrive in the meantime.
InitCancel == InitWith({FlightConfig})

NextCancel == TimedRequest(ReqPaths, Ips) \/ TimedWrite(FlightBodies) \/ SleepElapses

SpecCancel == InitCancel /\ [][NextCancel]_vars /\ WF_vars(SleepElapses)

\* ------------------------------------- requests in flight and the dashboard
\* Requests and dashboard writes interleaved. call counts the requests
\* handled since construction (handled), those of them suspended in
\* sleep(delayMs) (sleeping) or left hanging by a timeout action (hung), and
\* remembers whether a write carried reset: true (reset). The continuation
\* of a suspended request, () => next(), touches no field of the state.
InitFlight ==
    /\ config = mergeConfig(FlightConfig)
    /\ state = initialState(mergeConfig(FlightConfig))
    /\ now = 0
    /\ route = NoRoute
    /\ last = NoObs("init")
    /\ windowCalls = [c \in ClientIds |-> 0]
    /\ writes = 0
    /\ call = [pc |-> "open", fn |-> "middleware", handled |-> 0, reset |-> FALSE,
               sleeping |-> 0, hung |-> 0]

\* A request: the pipeline up to the return of the middleware.
FlightRequest(paths, ips) ==
    /\ Pipeline(paths, ips)
    /\ call' = [call EXCEPT
                   !.handled = @ + 1,
                   !.sleeping = IF last'.next = "afterDelay" THEN @ + 1 ELSE @,
                   !.hung = IF last'.stage = "action" /\ last'.action.type = "timeout"
                            THEN @ + 1 ELSE @]

\* A dashboard write, possibly while requests are suspended.
FlightWrite(bodies) ==
    /\ Write(bodies)
    /\ call' = [call EXCEPT !.reset = @ \/ last'.body.reset = Bool(TRUE)]

NextFlight == Tick \/ FlightRequest(ReqPaths, Ips) \/ FlightWrite(FlightBodies)

SpecFlight == InitFlight /\ [][NextFlight]_vars

\* ================================================================ claims
IsRequest == last.op = "request"
ReachedRateLimit == last.stage \in {"rateLimit", "gate", "action"}
ReachedGate == last.stage \in {"gate", "action"}
LastClient == ClientIdOf(last.ip)
Limit == config.behaviors.rateLimit.requestLimit

\* C1: with rate limiting enabled, a call of checkRateLimit is rejected iff it
\* is later than the requestLimit-th call of its client in the client's
\* current window (the window opened by the call that created or
\* re-initialised the client's entry).
C1_RateLimitWindow ==
    (IsRequest /\ ReachedRateLimit /\ config.behaviors.rateLimit.enabled)
        => (last.limited <=> windowCalls[LastClient] > Limit)

\* A second rejection in one window: a call two past the limit.
C1_Witness ==
    /\ IsRequest /\ ReachedRateLimit /\ config.behaviors.rateLimit.enabled
    /\ last.limited
    /\ windowCalls[LastClient] = Limit + 2

\* C2 as stated: in the end-to-end scenario every request is answered with
\* the Error action carrying status 503.
C2_AlwaysError503 ==
    IsRequest => (last.response.kind = "chaosError" /\ last.response.status = 503)

\* C2 as amended: in the end-to-end scenario a request the rate limiter does
\* not reject is answered with Error 503; the rate limiter, on by default,
\* rejects with 429 every call past the 10th of a client in a window.
C2_Error503UnlessRateLimited ==
    IsRequest =>
        /\ last.limited <=> windowCalls[LastClient] > 10
        /\ IF last.limited
           THEN last.response.kind = "tooManyRequests" /\ last.response.status = 429
           ELSE /\ last.action.type = "error"
                /\ last.response.kind = "chaosError"
                /\ last.response.status = 503

\* A twelfth request that is still answered 503.
C2_Witness ==
    /\ IsRequest
    /\ state.requestCount = 12
    /\ last.response.kind = "chaosError" /\ last.response.status = 503

\* C3: while the engine is disabled every request is passed to the handler
\* unmodified and the engine sends nothing.
C3_DisabledPassesThrough ==
    (IsRequest /\ ~state.enabled)
        => /\ last.next = "now"
           /\ last.response.kind = "none"
           /\ last.intercept = "none"

\* The spike was active and its deadline had not passed when the gate ran.
SpikeUnexpiredAtGate ==
    /\ last.spikeBefore.spikeMode
    /\ now <= last.spikeBefore.spikeModeExpiry

\* The spike was active and its deadline had passed when the gate ran.
SpikeExpiredAtGate ==
    /\ last.spikeBefore.spikeMode
    /\ now > last.spikeBefore.spikeModeExpiry

\* C4: a gate evaluation made while the engine is enabled and the spike is
\* active and unexpired uses the effective probability 0.8, whatever
\* state.probability is.
C4_SpikeProbability ==
    (IsRequest /\ ReachedGate /\ state.enabled /\ SpikeUnexpiredAtGate)
        => last.effectiveProbability = SpikeProbability

\* Chaos injected during a spike although the dashboard has set the
\* probability to 0 (the configured one was not 0).
C4_Witness ==
    /\ IsRequest /\ last.stage = "action" /\ state.enabled /\ SpikeUnexpiredAtGate
    /\ config.probability # 0 /\ state.probability = 0
    /\ last.effectiveProbability = SpikeProbability

\* C5: a gate evaluation with the engine enabled and the spike active clears
\* both spike fields and uses state.probability when now > spikeModeExpiry,
\* and leaves both spike fields alone when now <= spikeModeExpiry.
C5_LazyExpiry ==
    (IsRequest /\ ReachedGate /\ state.enabled /\ last.spikeBefore.spikeMode)
        => IF now > last.spikeBefore.spikeModeExpiry
           THEN /\ ~state.spikeMode
                /\ state.spikeModeExpiry = NULL
                /\ last.effectiveProbability = state.probability
           ELSE SpikeFields(state) = last.spikeBefore

\* A gate evaluation that ended a spike and fell back to a probability other
\* than 0.8.
C5_Witness ==
    /\ IsRequest /\ ReachedGate /\ state.enabled /\ SpikeExpiredAtGate
    /\ ~state.spikeMode /\ state.spikeModeExpiry = NULL
    /\ last.effectiveProbability = state.probability
    /\ state.probability # SpikeProbability

\* C6: spikeMode goes from true to false only in a request that evaluates the
\* gate, with the engine enabled, after spikeModeExpiry; and a dashboard read
\* reports the stored spikeMode and changes nothing.
C6_OnlyGateEndsSpike ==
    [][ /\ (state.spikeMode /\ ~state'.spikeMode)
               => /\ last'.op = "request"
                  /\ last'.stage \in {"gate", "action"}
                  /\ state.enabled
                  /\ now > state.spikeModeExpiry
        /\ last'.op = "getState"
               => /\ last'.response.json.spikeMode = state.spikeMode
                  /\ state' = state ]_vars

\* A dashboard read after the deadline still reports the spike as active.
C6_Witness ==
    /\ last.op = "getState"
    /\ last.response.json.spikeMode
    /\ state.spikeMode
    /\ now > state.spikeModeExpiry

\* The number of the first call of clientId, counted from 1, that
\* checkRateLimit rejects when the calls are made one after another at time t.
RECURSIVE CallsUntilRejected(_, _, _, _, _)
CallsUntilRejected(st, cfg, clientId, t, k) ==
    LET made == checkRateLimit(st, cfg, clientId, t)
    IN  IF made.result THEN k
        ELSE CallsUntilRejected(made.state, cfg, clientId, t, k + 1)

\* C7: a dashboard write with reset: true leaves requestCount = 0,
\* chaosCount = 0 and an empty rate-limit table, and with rate limiting
\* enabled every client then has requestLimit calls before the next rejection.
C7_Reset ==
    (last.op = "postState" /\ last.body.reset = Bool(TRUE))
        => /\ state.requestCount = 0
           /\ state.chaosCount = 0
           /\ state.rateLimitCounter = EmptyMap
           /\ config.behaviors.rateLimit.enabled
                  => \A c \in ClientIds :
                        CallsUntilRejected(state, config, c, now, 1) = Limit + 1

\* A reset while a client was over its limit.
C7_Witness ==
    /\ last.op = "postState" /\ last.body.reset = Bool(TRUE)
    /\ config.behaviors.rateLimit.enabled
    /\ \E c \in DOMAIN last.before.rateLimitCounter :
          /\ last.before.rateLimitCounter[c].count > Limit
          /\ now <= last.before.rateLimitCounter[c].resetAt
    /\ last.before.chaosCount > 0
    /\ state.rateLimitCounter = EmptyMap

\* C8: a dashboard write with a numeric probability v stores min(1, max(0, v)),
\* and state.probability is within [0, 1] in every reachable state.
C8_ProbabilityClamped ==
    /\ state.probability \in 0..10
    /\ (last.op = "postState" /\ last.body.probability.type = "number")
           => state.probability = Min(10, Max(0, last.body.probability.n))

\* A write of 1.5 stored as 1.
C8_Witness ==
    /\ last.op = "postState"
    /\ last.body.probability = Num(15)
    /\ state.probability = 10

\* The reference notion of a match: a string matcher is a case-sensitive
\* literal prefix of the path, a regular expression is tested against it.
RefMatches(m, p) ==
    IF m.kind = "string"
    THEN Len(m.lit) <= Len(p) /\ SubSeq(p, 1, Len(m.lit)) = m.lit
    ELSE RegExpTest(m, p)

RefMatchesAny(list, p) == \E i \in 1..Len(list) : RefMatches(list[i], p)

Returned == route.pc = "returned"

\* C9: a path that matches some exclude matcher is not fuzzed, whatever the
\* include list holds.
C9_ExcludePrecedence ==
    (Returned /\ RefMatchesAny(route.excludeRoutes, route.path)) => ~route.result

\* A path matched by an include matcher and by an exclude matcher.
C9_Witness ==
    /\ Returned
    /\ RefMatchesAny(route.excludeRoutes, route.path)
    /\ RefMatchesAny(route.includeRoutes, route.path)
    /\ ~route.result

\* C10: shouldFuzzRoute returns (no exclude matcher matches) and (the include
\* list is empty or some include matcher matches); with both lists empty it
\* returns true.
C10_ReferencePredicate ==
    Returned =>
        /\ route.result <=>
              /\ ~RefMatchesAny(route.excludeRoutes, route.path)
              /\ (Len(route.includeRoutes) = 0
                     \/ RefMatchesAny(route.includeRoutes, route.path))
        /\ (route.includeRoutes = <<>> /\ route.excludeRoutes = <<>>) => route.result

\* A path let through by the second include matcher alone, past a non-empty
\* exclude list.
C10_Witness ==
    /\ Returned
    /\ Len(route.includeRoutes) = 2
    /\ ~RefMatches(route.includeRoutes[1], route.path)
    /\ RefMatches(route.includeRoutes[2], route.path)
    /\ Len(route.excludeRoutes) > 0
    /\ route.result

\* The path lies under the prefix '/a/': it continues past the slash.
UnderGlobPrefix(p) == Len(p) > 3 /\ SubSeq(p, 1, 3) = <<"/", "a", "/">>

\* C11: the string pattern '/a/*' targets every route under '/a/': as the only
\* include pattern it makes exactly the paths under the prefix fuzzed, and as
\* an exclude pattern it keeps every path under the prefix from being fuzzed.
C11_WildcardPrefix ==
    Returned =>
        /\ (route.includeRoutes = <<GlobMatcher>> /\ route.excludeRoutes = <<>>)
               => (route.result <=> UnderGlobPrefix(route.path))
        /\ (route.excludeRoutes = <<GlobMatcher>> /\ UnderGlobPrefix(route.path))
               => ~route.result

CallReturned == call.pc = "returned"

BehaviourTypes == {"latency", "error", "timeout", "bodyMutation", "zombieMode", "headerHavoc"}

\* The behaviour of this type is a candidate of the call: its enabled flag is
\* true and, for timeout and zombieMode, its secondary trial succeeded.
IsCandidate(type) ==
    LET b == call.cfg.behaviors
    IN  CASE type = "latency" -> b.latency.enabled
          [] type = "error" -> b.errors.enabled
          [] type = "timeout" -> b.timeout.enabled /\ call.rTimeout < b.timeout.probability
          [] type = "bodyMutation" -> b.bodyMutation.enabled
          [] type = "zombieMode" ->
                b.zombieMode.enabled /\ call.rZombie < b.zombieMode.probability
          [] type = "headerHavoc" -> b.headerHavoc.enabled
          [] OTHER -> FALSE

\* C12: selectChaosAction returns None iff the call built no candidate;
\* otherwise the type returned is the type of a built candidate, hence of an
\* enabled behaviour and never rateLimit.
C12_NoneIffNoCandidate ==
    CallReturned =>
        /\ call.result.type = "none" <=> \A type \in BehaviourTypes : ~IsCandidate(type)
        /\ call.result.type # "none"
               => /\ call.result.type \in BehaviourTypes
                  /\ IsCandidate(call.result.type)
                  /\ call.result.type # "rateLimit"

\* None although timeout and zombieMode are enabled: both trials failed.
C12_Witness ==
    /\ CallReturned
    /\ call.result.type = "none"
    /\ call.cfg.behaviors.timeout.enabled
    /\ call.cfg.behaviors.zombieMode.enabled
    /\ call.cfg.behaviors.rateLimit.enabled

\* C13: with fieldProbability 0, mutateBody returns a value structurally
\* equal to its input.
C13_ZeroProbabilityIdentity ==
    (CallReturned /\ call.fieldProbability = 0) => call.result = call.body

\* A two-level body of every kind of leaf that came back unchanged although
\* Math.random() returned 0.
C13_Witness ==
    /\ CallReturned /\ call.fieldProbability = 0
    /\ call.rnd = <<0>>
    /\ call.body = JObject(<<"a", "b">>,
                           << JArray(<<JString("s"), JNumber(7)>>), JBoolean(TRUE) >>)
    /\ call.result = call.body

\* The body with every leaf of it mutated.
RECURSIVE FullyMutated(_)
FullyMutated(v) ==
    CASE v.type = "string" -> JUndefined
      [] v.type = "number" -> JNumber(-999)
      [] v.type = "boolean" -> JBoolean(~v.b)
      [] v.type \in {"array", "object"} ->
            [v EXCEPT !.kids = [i \in 1..Len(v.kids) |-> FullyMutated(v.kids[i])]]
      [] OTHER -> v

\* C14: with fieldProbability 1, mutateBody turns every string leaf into
\* undefined, every number leaf into -999 and every boolean leaf into its
\* negation at every depth, keeps null leaves, and keeps every object's keys
\* and every array's length.
C14_FullMutation ==
    (CallReturned /\ call.fieldProbability = 10) =>
        /\ call.result = FullyMutated(call.body)
        /\ call.result.keys = call.body.keys
        /\ Len(call.result.kids) = Len(call.body.kids)

\* A nested body with a string, a number, a boolean and a null, fully mutated
\* although Math.random() returned 0.9.
C14_Witness ==
    /\ CallReturned /\ call.fieldProbability = 10
    /\ call.rnd = <<9>>
    /\ call.body = JObject(<<"a", "b">>,
                           << JArray(<<JString("s"), JNumber(7)>>), JBoolean(TRUE) >>)
    /\ call.result = JObject(<<"a", "b">>,
                             << JArray(<<JUndefined, JNumber(-999)>>), JBoolean(FALSE) >>)

FirstReturn == call.pc = "returned"

TargetIsKey == \E i \in 1..Len(call.headers) : call.headers[i].name = call.targetHeader

\* The value the map holds for a name that is one of its keys.
ValueOf(headers, name) ==
    (CHOOSE e \in {headers[i] : i \in 1..Len(headers)} : e.name = name).value

\* The map without the entry of the name.
Without(headers, name) ==
    LET Other(e) == e.name # name
    IN  SelectSeq(headers, Other)

\* C15: with a target header that is a key of a non-empty map, whatever its
\* value, applyHeaderHavoc acts on that header: 'delete' returns the map
\* without the key, and every action returns all other headers unchanged.
C15_ActsOnTargetHeader ==
    (FirstReturn /\ TargetIsKey) =>
        /\ call.headerToMess = call.targetHeader
        /\ call.action = "delete" => call.result = Without(call.headers, call.targetHeader)
        /\ Without(call.result, call.targetHeader) = Without(call.headers, call.targetHeader)

\* The character-reversed form of a string.
Reversed(s) == [i \in 1..Len(s) |-> s[Len(s) + 1 - i]]

ScrambledValue(value) ==
    IF value.type = "string" THEN HString(Reversed(value.s))
    ELSE HList([i \in 1..Len(value.items) |-> Reversed(value.items[i])])

\* C16: 'scramble' replaces the value of the header acted on by its reversed
\* form, member by member for a list ('application/json' becomes
\* 'nosj/noitacilppa'), and scrambling with the same target header, a key of
\* the map, twice returns a map equal to the original.
C16_ScrambleTwiceIsIdentity ==
    /\ (FirstReturn /\ call.action = "scramble" /\ Len(call.headers) > 0) =>
           /\ ValueOf(call.result, call.headerToMess)
                  = ScrambledValue(ValueOf(call.headers, call.headerToMess))
           /\ ValueOf(call.headers, call.headerToMess) = HString(ApplicationJson)
                  => ValueOf(call.result, call.headerToMess) = HString(<<"n", "o", "s", "j", "/", "n", "o", "i", "t", "a", "c", "i", "l", "p", "p", "a">>)
    /\ (call.pc = "returnedAgain" /\ call.action = "scramble" /\ TargetIsKey)
           => call.result = call.headers

IsContentType(name) == name \in {"content-type", "Content-Type", "CONTENT-TYPE"}

EndsWithChaosSuffix(value) ==
    /\ value.type = "string"
    /\ Len(value.s) >= Len(ChaosSuffix)
    /\ SubSeq(value.s, Len(value.s) - Len(ChaosSuffix) + 1, Len(value.s)) = ChaosSuffix

AlterCall == FirstReturn /\ call.action = "alter" /\ Len(call.headers) > 0

RECURSIVE Flatten(_, _)
Flatten(list, k) ==
    IF k > Len(list) THEN <<>> ELSE list[k] \o Flatten(list, k + 1)

BytesBeforeDrip == Flatten(call.buffered, 1)

\* C18: drip writes to the sink the bytes of the chunks written before it, one
\* byte per write, in order and each once, and calls end once, after the last
\* byte (with no write at all for an empty buffer).
C18_DripEmitsBufferThenEnds ==
    /\ Len(call.sink) <= Len(BytesBeforeDrip)
    /\ \A k \in 1..Len(call.sink) : call.sink[k] = <<BytesBeforeDrip[k]>>
    /\ call.ends = IF call.pc = "done" THEN 1 ELSE 0
    /\ call.ends > 0 => Len(call.sink) = Len(BytesBeforeDrip)

\* A two-byte chunk dripped to the end while a second chunk, written during
\* the drip, stayed out.
C18_Witness ==
    /\ call.pc = "done"
    /\ call.ends = 1
    /\ call.buffered = << <<65, 66>> >>
    /\ call.sink = << <<65>>, <<66>> >>
    /\ Len(call.buffer) = 2

TimeoutSelected == IsRequest /\ last.stage = "action" /\ last.action.type = "timeout"

\* C19: a request whose selected action is Timeout is left hanging: the
\* handler is never invoked and the engine sends no response and wraps no
\* response method, in the Express middleware, the Next.js middleware and the
\* API route wrapper alike.
C19_TimeoutNeverCompletes ==
    TimeoutSelected =>
        /\ last.next = "never"
        /\ last.response = NoResponse
        /\ last.intercept = "none"
        /\ \A o \in {fuzzboxNextSwitch(last.action), fuzzboxApiRouteSwitch(last.action)} :
              o.handler = "never" /\ o.response = NoResponse /\ o.intercept = "none"

\* A timeout selected after the dashboard had been written to.
C19_Witness ==
    /\ TimeoutSelected
    /\ last.next = "never"
    /\ last.response = NoResponse
    /\ writes > 0

\* C20: a request for which checkRateLimit reports the limit exceeded is
\* answered 429 with Retry-After equal to the configured retryAfterSeconds,
\* the handler is not invoked, and neither the gate (which would end an
\* expired spike) nor the selector is consulted; in every adapter.
C20_RateLimitShortCircuit ==
    (IsRequest /\ last.limited) =>
        /\ last.stage = "rateLimit"
        /\ last.response.status = 429
        /\ last.response.retryAfter = config.behaviors.rateLimit.retryAfterSeconds
        /\ last.next = "never"
        /\ last.effectiveProbability = NULL
        /\ SpikeFields(state) = last.spikeBefore
        /\ last.action = NoneAction /\ last.intercept = "none"
        /\ \A o \in {fuzzboxNextRateLimited(config), fuzzboxApiRouteRateLimited(config)} :
              /\ o.response.status = 429
              /\ o.response.retryAfter = config.behaviors.rateLimit.retryAfterSeconds
              /\ o.handler = "never"

\* A rejected request that left an expired spike in place.
C20_Witness ==
    /\ IsRequest /\ last.limited
    /\ last.response.status = 429
    /\ SpikeExpiredAtGate
    /\ state.spikeMode

\* ---------------------------------------------------------------------- C21
\* The user's configuration supplies key k at the top level.
SuppliesTop(k) == k \in DOMAIN call.userConfig

\* The user's configuration supplies key k inside behaviour block b.
SuppliesNested(b, k) ==
    /\ "behaviors" \in DOMAIN call.userConfig
    /\ b \in DOMAIN call.userConfig.behaviors
    /\ k \in DOMAIN call.userConfig.behaviors[b]

\* C21: mergeConfig returns a configuration with every key of the defaults,
\* at the top level and inside each of the seven behaviour blocks; each key
\* holds the user's value when the user supplied that key and the default's
\* value otherwise, so a partially supplied block overrides only its own keys.
C21_MergeConfigKeywise ==
    (CallReturned /\ call.fn = "mergeConfig") =>
        LET m == call.result
            u == call.userConfig
            d == defaultConfig
        IN  /\ DOMAIN m = DOMAIN d
            /\ \A k \in DOMAIN d \ {"behaviors"} :
                  m[k] = IF SuppliesTop(k) THEN u[k] ELSE d[k]
            /\ DOMAIN m.behaviors = DOMAIN d.behaviors
            /\ \A b \in DOMAIN d.behaviors :
                  /\ DOMAIN m.behaviors[b] = DOMAIN d.behaviors[b]
                  /\ \A k \in DOMAIN d.behaviors[b] :
                        m.behaviors[b][k] =
                            IF SuppliesNested(b, k)
                            THEN u.behaviors[b][k]
                            ELSE d.behaviors[b][k]

\* mergeConfig has returned for { behaviors: { latency: { minMs: 200 } } }:
\* the latency block has the user's minMs and the default enabled and maxMs.
C21_Witness ==
    /\ CallReturned
    /\ call.fn = "mergeConfig"
    /\ DOMAIN call.userConfig = {"behaviors"}
    /\ DOMAIN call.userConfig.behaviors = {"latency"}
    /\ DOMAIN call.userConfig.behaviors.latency = {"minMs"}
    /\ call.result.behaviors.latency = [enabled |-> TRUE, minMs |-> 200, maxMs |-> 3000]
    /\ call.result.behaviors.errors = defaultConfig.behaviors.errors

\* ---------------------------------------------------------------------- C22
\* The payload of the last dashboard write carries no recognised key with a
\* value of the accepted type, or is no payload at all.
UnusablePayload ==
    /\ last.op = "postState"
    /\ \/ last.body = Undefined
       \/ /\ last.body # Undefined
          /\ last.body.enabled.type # "boolean"
          /\ last.body.probability.type # "number"
          /\ last.body.spikeMode # Bool(TRUE)
          /\ last.body.reset # Bool(TRUE)

\* C22: a dashboard write whose payload has only unrecognised keys or wrongly
\* typed values, or no usable payload at all, leaves every field of the state
\* unchanged and is answered with the normal state echo; no error is raised.
C22_UnusableWriteIsEchoed ==
    UnusablePayload =>
        /\ state = last.before
        /\ last.response = Response("state", 200, NULL, StateJson(last.before))

\* ---------------------------------------------------------------------- C23
GateReturned == CallReturned /\ call.fn = "shouldInjectChaos"

\* C23: when state.enabled is false, shouldInjectChaos returns false and
\* modifies no field of the state; in particular an expired spike is not
\* cleared by a gate evaluation made while the engine is disabled.
C23_DisabledGateIsPure ==
    (GateReturned /\ ~call.st.enabled) =>
        /\ call.result.result = FALSE
        /\ call.result.state = call.st

\* The gate has been evaluated on a disabled engine after the deadline of its
\* spike, and the spike is still set.
C23_Witness ==
    /\ GateReturned
    /\ ~call.st.enabled
    /\ call.st.spikeMode
    /\ call.t > call.st.spikeModeExpiry
    /\ call.result.state.spikeMode
    /\ call.result.state.spikeModeExpiry = SpikeDurationMs
    /\ ~call.result.result

\* ---------------------------------------------------------------------- C24
\* The step is a request that calls checkRateLimit, with rate limiting
\* enabled, for a client that already has an entry in the table.
CallForKnownClient ==
    /\ last'.op = "request"
    /\ last'.stage \in {"rateLimit", "gate", "action"}
    /\ config.behaviors.rateLimit.enabled
    /\ ClientIdOf(last'.ip) \in DOMAIN state.rateLimitCounter

\* C24: the rate-limit window is fixed. A call for a client made while
\* now <= resetAt (now = resetAt and rejected calls included) increments count
\* and keeps resetAt; the first call with now > resetAt replaces the entry by
\* count = 1 and resetAt = now + windowMs.
C24_FixedWindow ==
    [][ CallForKnownClient =>
            LET clientId == ClientIdOf(last'.ip)
                before == state.rateLimitCounter[clientId]
                after == state'.rateLimitCounter[clientId]
            IN  IF now <= before.resetAt
                THEN after = [count |-> before.count + 1, resetAt |-> before.resetAt]
                ELSE after = [count |-> 1,
                              resetAt |-> now + config.behaviors.rateLimit.windowMs]
      ]_vars

\* A rejected call made exactly at resetAt of a window opened at time 0: it
\* was counted in that window, whose end has not moved.
C24_Witness ==
    /\ IsRequest /\ last.limited
    /\ now = config.behaviors.rateLimit.windowMs
    /\ state.rateLimitCounter[LastClient].resetAt = now
    /\ state.rateLimitCounter[LastClient].count > Limit + 1

\* ---------------------------------------------------------------------- C25
\* What the client has received from the response so far.
Received == Flatten(call.sink, 1)

\* The response has been completed after exactly the bytes of the payload.
DripCompleted == call.ends = 1 /\ Received = call.chunk

\* C25: in the Express adapter, when zombieMode is applied and the handler
\* ends its response with an n-byte payload, the client receives exactly those
\* n bytes, each once and in order, and the response is eventually completed,
\* for every n >= 0.
C25_ExpressDripCompletes ==
    /\ [](/\ Len(Received) <= Len(call.chunk)
          /\ \A k \in 1..Len(Received) : Received[k] = call.chunk[k])
    /\ <>DripCompleted

\* ---------------------------------------------------------------------- C26
\* The gate was evaluated on an enabled engine that is not in spike mode.
PlainGateReturned == GateReturned /\ call.st.enabled /\ ~call.st.spikeMode

\* The results of the gate in the call's state over every sample of [0, 1).
GateOutcomes == {shouldInjectChaos(call.st, call.t, sample).result : sample \in Samples}

\* C26: with the engine enabled and not in spike mode, the gate never fires
\* when state.probability is 0 and always fires when it is 1; for
\* probabilities strictly between, both outcomes are possible.
C26_GateExtremes ==
    PlainGateReturned =>
        /\ call.st.probability = 0 => ~call.result.result
        /\ call.st.probability = 10 => call.result.result
        /\ (0 < call.st.probability /\ call.st.probability < 10)
              => GateOutcomes = {TRUE, FALSE}

\* The gate has fired with probability 1 on the largest sample of [0, 1).
C26_Witness ==
    /\ PlainGateReturned
    /\ call.st.probability = 10
    /\ call.sample = 9
    /\ call.result.result

\* ---------------------------------------------------------------------- C27
\* The behaviour is the only one whose enabled flag is true.
OnlyEnabled(block) ==
    \A other \in DOMAIN call.cfg.behaviors \ {"rateLimit"} :
        call.cfg.behaviors[other].enabled <=> other = block

\* C27: timeout, and likewise zombieMode, is a candidate of a call of
\* selectChaosAction only if it is enabled and its secondary trial against its
\* own probability succeeds in that call: with that probability 0 the action
\* is never returned, and when it is the only enabled behaviour and the trial
\* fails, the call returns None.
C27_SecondaryTrial ==
    (CallReturned /\ call.fn = "selectChaosAction") =>
        LET b == call.cfg.behaviors
            timeoutTrial == call.rTimeout < b.timeout.probability
            zombieTrial == call.rZombie < b.zombieMode.probability
        IN  /\ call.result.type = "timeout" => (b.timeout.enabled /\ timeoutTrial)
            /\ call.result.type = "zombieMode" => (b.zombieMode.enabled /\ zombieTrial)
            /\ b.timeout.probability = 0 => call.result.type # "timeout"
            /\ b.zombieMode.probability = 0 => call.result.type # "zombieMode"
            /\ (OnlyEnabled("timeout") /\ ~timeoutTrial) => call.result = NoneAction
            /\ (OnlyEnabled("zombieMode") /\ ~zombieTrial) => call.result = NoneAction

\* Timeout is the only enabled behaviour, its trial against probability 0.5
\* has failed, and the call has returned None.
C27_Witness ==
    /\ CallReturned /\ call.fn = "selectChaosAction"
    /\ OnlyEnabled("timeout")
    /\ call.cfg.behaviors.timeout.probability = 5
    /\ call.rTimeout = 5
    /\ call.result = NoneAction

\* ---------------------------------------------------------------------- C28
\* The elements of a list.
Elements(list) == {list[k] : k \in 1..Len(list)}

\* C28: whenever selectChaosAction returns an Error action, its statusCode is
\* a member of the configured errors.statusCodes, for every configuration in
\* which errors is enabled.
C28_StatusCodeIsConfigured ==
    (CallReturned /\ call.fn = "selectChaosAction" /\ call.result.type = "error") =>
        call.result.statusCode \in Elements(call.cfg.behaviors.errors.statusCodes)

\* ---------------------------------------------------------------------- C29
\* The delays randomInt yields for the call's range over every sample.
Delays ==
    { randomInt(call.cfg.behaviors.latency.minMs, call.cfg.behaviors.latency.maxMs, r) :
        r \in Samples }

\* C29: whenever selectChaosAction returns a Latency action under a
\* configuration with integer minMs <= maxMs, its delayMs is an integer with
\* minMs <= delayMs <= maxMs, and both bounds are attainable.
C29_DelayWithinRange ==
    LET latency == call.cfg.behaviors.latency
    IN  (/\ CallReturned /\ call.fn = "selectChaosAction"
         /\ call.result.type = "latency"
         /\ latency.minMs <= latency.maxMs) =>
            /\ call.result.delayMs \in Int
            /\ latency.minMs <= call.result.delayMs
            /\ call.result.delayMs <= latency.maxMs
            /\ latency.minMs \in Delays
            /\ latency.maxMs \in Delays

\* A Latency action whose delay is the upper bound of a range of ten values.
C29_Witness ==
    /\ CallReturned /\ call.fn = "selectChaosAction"
    /\ call.result.type = "latency"
    /\ call.cfg.behaviors.latency.minMs = 100
    /\ call.cfg.behaviors.latency.maxMs = 109
    /\ call.result.delayMs = 109

\* ---------------------------------------------------------------------- C30
\* A request has been handled by the middleware.
Handled == call.pc \in {"sleeping", "done"}

\* The number of calls of next() the claim gives the request handled last.
ExpectedNextCalls ==
    CASE call.stage \in {"route", "gate"} -> 1
      [] call.stage = "rateLimit" -> 0
      [] call.stage = "action" /\ call.type \in {"error", "timeout"} -> 0
      [] OTHER -> 1

\* C30: in the Express adapter every non-dashboard request invokes next() at
\* most once: exactly once when the route is not fuzzed, when the gate
\* declines, or when the action is Latency (and then only after the delay has
\* elapsed), BodyMutation, Drip, HeaderHavoc or None; never when the request
\* is rate-limited or the action is Error or Timeout.
C30_NextAtMostOnce ==
    /\ [](Handled =>
            /\ call.nextCalls <= 1
            /\ call.pc = "done" => call.nextCalls = ExpectedNextCalls
            /\ call.pc = "sleeping" => (call.type = "latency" /\ call.nextCalls = 0)
            /\ (call.type = "latency" /\ call.nextCalls = 1) => now >= call.due)
    /\ ((call.pc = "sleeping") ~> (call.pc = "done"))

\* The timer of a latency action of 2 ms has fired and next() has been called
\* once, 2 ms after the request.
C30_Witness ==
    /\ call.pc = "done"
    /\ call.type = "latency"
    /\ call.nextCalls = 1
    /\ call.due = 2
    /\ now = 2

\* ---------------------------------------------------------------------- C31
\* The wrapped response method has passed on something else than it was given.
Replaced == call.result # call.body

\* The response status code is one of bodyMutation.statusCodes.
StatusConfigured == Includes(call.cfg.behaviors.bodyMutation.statusCodes, call.statusCode)

\* What mutateBody returns for the value of the body.
MutatedValue ==
    mutateBody(call.body.value, call.cfg.behaviors.bodyMutation.fieldProbability,
               call.rnd, 0).value

\* C31: with the BodyMutation action applied, the handler's output is
\* replaced by mutateBody's result only when the response status code is in
\* bodyMutation.statusCodes; for any other status code, and for a body that
\* does not parse as JSON, the original payload is passed through unchanged.
C31_MutatesConfiguredStatusOnly ==
    (CallReturned /\ call.fn \in {"res.send", "res.json"}) =>
        /\ Replaced => StatusConfigured
        /\ Replaced => call.result = IF call.fn = "res.send" THEN stringify(MutatedValue)
                                     ELSE Value(MutatedValue)
        /\ ~StatusConfigured => call.result = call.body
        /\ call.body = Garbage => call.result = call.body

\* A JSON body { "a": 7 } sent with status 200 has been replaced by the text
\* of { "a": -999 }.
C31_Witness ==
    /\ CallReturned
    /\ call.fn = "res.send"
    /\ call.statusCode = 200
    /\ call.body = Text(JObject(<<"a">>, <<JNumber(7)>>))
    /\ call.result = Text(JObject(<<"a">>, <<JNumber(MutatedNumber)>>))

\* ---------------------------------------------------------------------- C32
\* The step is a dashboard write carrying reset: true.
ResetStep == last'.op = "postState" /\ last'.body.reset = Bool(TRUE)

\* C32: requestCount and chaosCount never decrease except by an explicit
\* reset, and no increment is lost: after any interleaving of N requests
\* (those still suspended in latency or timeout included) with dashboard
\* writes that contain no reset, requestCount is N.
C32_CountersMonotonic ==
    /\ [][ (state'.requestCount < state.requestCount
             \/ state'.chaosCount < state.chaosCount) => ResetStep ]_vars
    /\ [](~call.reset => state.requestCount = call.handled)

\* Two requests have been counted, one of them still suspended in its
\* latency and one hanging in a timeout, with a dashboard write in between.
C32_Witness ==
    /\ ~call.reset
    /\ call.handled = 2
    /\ state.requestCount = 2
    /\ writes > 0
    /\ call.hung > 0
    /\ call.sleeping > 0

\* ---------------------------------------------------------------------- C33
\* The step is a dashboard write carrying reset: true.
TableCleared ==
    /\ last'.op = "postState"
    /\ last'.body # Undefined
    /\ last'.body.reset = Bool(TRUE)

\* The step is a request of the client that calls checkRateLimit.
CalledBy(clientId) ==
    /\ last'.op = "request"
    /\ last'.stage \in {"rateLimit", "gate", "action"}
    /\ ClientIdOf(last'.ip) = clientId

ChaosInjected ==
    \/ last'.limited
    \/ last'.stage = "action" /\ last'.action.type # "none"

\* C34: chaosCount counts chaos actually injected: a request increments it by
\* one exactly when it is rate-limited or receives a chaos action other than
\* None; a request for which the selector returns None leaves it unchanged.
C34_ChaosCountCountsInjected ==
    [][ (last'.op = "request" /\ state'.requestCount = state.requestCount + 1) =>
            state'.chaosCount = state.chaosCount + (IF ChaosInjected THEN 1 ELSE 0) ]_vars

\* ---------------------------------------------------------------------- C35
\* The last operation was a dashboard write with spikeMode: true.
SpikeWritten ==
    /\ last.op = "postState"
    /\ last.body # Undefined
    /\ last.body.spikeMode = Bool(TRUE)

\* C35: a dashboard write with spikeMode: true has no precondition: in any
\* state (normal, already spiking, expired but not yet observed, disabled) it
\* sets spikeMode = true and spikeModeExpiry = now + 30000 ms, so re-activating
\* during a spike moves the expiry; the activation itself changes neither
\* enabled nor probability.
C35_SpikeActivation ==
    SpikeWritten =>
        /\ state.spikeMode
        /\ state.spikeModeExpiry = now + SpikeDurationMs
        /\ last.body.enabled.type # "boolean" => state.enabled = last.before.enabled
        /\ last.body.probability.type # "number"
              => state.probability = last.before.probability

\* A spike activated at time 0 has been re-activated at its deadline: the
\* expiry has moved on by a whole spike.
C35_Witness ==
    /\ SpikeWritten
    /\ last.before.spikeMode
    /\ last.before.spikeModeExpiry = SpikeDurationMs
    /\ now = SpikeDurationMs
    /\ state.spikeModeExpiry = 2 * SpikeDurationMs
    /\ state.enabled = last.before.enabled

\* ---------------------------------------------------------------------- C36
\* The request handled last got a latency action.
LatencySelected == Handled /\ call.stage = "action" /\ call.type = "latency"

\* C36: no cancellation. Dashboard writes that arrive while a request is
\* suspended (disable, probability change, reset) alter neither the action
\* selected nor its timer; a request with a latency action still invokes the
\* handler exactly once after its delay, even if the engine was disabled during
\* the delay, and a request with a timeout action stays without a call.
C36_NoCancellation ==
    /\ [][ (call.pc = "sleeping" /\ writes' = writes + 1) =>
              (call'.pc = "sleeping" /\ call'.type = call.type /\ call'.due = call.due) ]_vars
    /\ [](LatencySelected =>
             /\ call.nextCalls = IF call.pc = "done" THEN 1 ELSE 0
             /\ call.nextCalls = 1 => now >= call.due)
    /\ []((Handled /\ call.stage = "action" /\ call.type = "timeout") => call.nextCalls = 0)
    /\ ((call.pc = "sleeping") ~> (call.pc = "done" /\ call.nextCalls = 1))

\* The engine was switched off while a request was suspended in its latency,
\* and the handler has been invoked once all the same.
C36_Witness ==
    /\ LatencySelected
    /\ call.pc = "done"
    /\ call.disabled
    /\ ~state.enabled
    /\ call.nextCalls = 1

\* ---------------------------------------------------------------------- C37
\* This step is a dashboard write that activates the spike.
Activation ==
    /\ writes' = writes + 1
    /\ last'.body # Undefined
    /\ last'.body.spikeMode = Bool(TRUE)
    /\ state'.spikeMode
    /\ state'.spikeModeExpiry = now + SpikeDurationMs

\* This step is a request whose gate observed the end of the spike.
LazyExpiry ==
    /\ state'.requestCount = state.requestCount + 1
    /\ state.enabled
    /\ state.spikeMode
    /\ now > state.spikeModeExpiry
    /\ ~state'.spikeMode
    /\ state'.spikeModeExpiry = NULL

\* C37: in every reachable state spikeMode is true if and only if
\* spikeModeExpiry is set; activation sets both, lazy expiry clears both, and
\* no other operation changes either field.
C37_SpikeFieldsPaired ==
    /\ [](state.spikeMode <=> state.spikeModeExpiry # NULL)
    /\ [][ (\/ state'.spikeMode # state.spikeMode
            \/ state'.spikeModeExpiry # state.spikeModeExpiry)
              => (Activation \/ LazyExpiry) ]_vars

\* A spike was activated and a later request has observed its end.
C37_Witness ==
    /\ last.op = "request"
    /\ last.spikeBefore.spikeMode
    /\ last.spikeBefore.spikeModeExpiry # NULL
    /\ ~state.spikeMode
    /\ state.spikeModeExpiry = NULL

\* ---------------------------------------------------------------------- C38
\* C38: in every reachable state chaosCount <= requestCount, for any
\* interleaving of requests, dashboard writes and resets; a request increments
\* requestCount once and chaosCount at most once, in the same step.
C38_ChaosCountBounded ==
    /\ [](state.chaosCount <= state.requestCount)
    /\ [][ state'.chaosCount > state.chaosCount =>
              /\ state'.chaosCount = state.chaosCount + 1
              /\ state'.requestCount = state.requestCount + 1 ]_vars
    /\ [][ state'.requestCount > state.requestCount =>
              /\ state'.requestCount = state.requestCount + 1
              /\ state'.chaosCount \in {state.chaosCount, state.chaosCount + 1} ]_vars

\* After a reset, every request counted so far was also counted as chaos.
C38_Witness ==
    /\ writes >= 1
    /\ state.requestCount >= 2
    /\ state.chaosCount = state.requestCount

\* ---------------------------------------------------------------------- C39
\* The path matches an exclude pattern, or an include list is given and the
\* path matches none of its patterns.
Unselected(path) ==
    \/ LoopOver(config.excludeRoutes, path, 1)
    \/ Len(config.includeRoutes) > 0 /\ ~LoopOver(config.includeRoutes, path, 1)

\* This step handles a request outside the dashboard.
RequestStep == last'.op = "request" /\ state'.requestCount = state.requestCount + 1

ResetWritten ==
    /\ last'.op = "postState"
    /\ last'.body # Undefined
    /\ last'.body.reset = Bool(TRUE)

\* C40: with a dashboard path configured, the requests served by the dashboard
\* (the UI page, the state GET and the state POST) are not counted and not
\* fuzzed: they leave requestCount, chaosCount and the rate-limit table
\* unchanged, except for a POST carrying reset: true, and a state GET changes
\* no field of the state at all.
C40_DashboardNotCounted ==
    [][ last'.stage = "dashboard" =>
           /\ ~ResetWritten =>
                 /\ state'.requestCount = state.requestCount
                 /\ state'.chaosCount = state.chaosCount
                 /\ state'.rateLimitCounter = state.rateLimitCounter
                 /\ windowCalls' = windowCalls
           /\ last'.op = "getState" => state' = state
           /\ ~last'.limited
           /\ last'.action = NoneAction
           /\ last'.intercept = "none"
           /\ last'.response.kind \in {"html", "state", "typeError"} ]_vars

\* The state was read through the dashboard after traffic that was counted,
\* fuzzed and rate limited.
C40_Witness ==
    /\ last.op = "getState"
    /\ state.requestCount >= 2
    /\ state.chaosCount >= 1
    /\ DOMAIN state.rateLimitCounter # {}
    /\ last.response.json.requestCount = state.requestCount

====
